---- MODULE Spec2Model ----
(***************************************************************************)
(* iOS-Media-Metadata-Forge: the two Flask back ends.                      *)
(*   dt_app.py  /api/process-live   photo + video -> ZIP (Live Photo pair) *)
(*   app.py     /api/process-video  video -> MOV                           *)
(* One request is followed from its arrival to its response, together with *)
(* the detached deletion threads that schedule_delete starts.              *)
(*                                                                         *)
(* Text is a sequence of atoms.  An atom is a chunk of characters that the *)
(* string operations of the code treat uniformly: a whitespace character,  *)
(* a dot, a path separator, a run of ASCII letters and digits, a run of    *)
(* non-ASCII characters.                                                   *)
(***************************************************************************)
EXTENDS Integers, Sequences, FiniteSets, TLC

VARIABLES
    request,        \* the multipart request: [endpoint, files, form]
    pc,             \* position of the request handler
    uid,            \* uuid.uuid4().hex of the request ("" before it is drawn)
    args,           \* the handler's locals read from the form (make, model, ...)
    photo_ext,      \* process_live: extension of the sanitised photo name
    video_ext,      \* process_live: extension of the sanitised video name
    src_ext,        \* process_video: extension of the sanitised file name
    tmp_files,      \* process_live: the list cleanup_all walks
    current_photo,  \* process_live: the image that is copied to out_photo
    pending,        \* what a try statement still has to do after its finally
    fs,             \* UPLOAD_DIR: path -> content, for the files that exist
    threads,        \* the deletion threads started so far, in start order
    calls,          \* the external tool invocations so far, in order
    steps,          \* the pipeline steps started so far, with their outcome
    response,       \* the HTTP response, once there is one
    now,            \* seconds on the wall clock
    clock0,         \* wall clock when the response was returned
    other           \* the locals of a second request handler that is not running now

vars == <<request, pc, uid, args, photo_ext, video_ext, src_ext, tmp_files,
          current_photo, pending, fs, threads, calls, steps, response, now,
          clock0, other>>

----------------------------------------------------------------------------
(* str methods                                                             *)

Whitespace == {" ", "\t"}

\* str.upper / str.lower, atom by atom
UpperAtom(c) ==
    CASE c = "a" -> "A"
      [] c = "b" -> "B"
      [] c = "ab12" -> "AB12"
      [] c = "jpg" -> "JPG"
      [] c = "png" -> "PNG"
      [] c = "mov" -> "MOV"
      [] OTHER -> c

LowerAtom(c) ==
    CASE c = "A" -> "a"
      [] c = "B" -> "b"
      [] c = "AB12" -> "ab12"
      [] c = "JPG" -> "jpg"
      [] c = "PNG" -> "png"
      [] c = "MOV" -> "mov"
      [] c = "IMG" -> "img"
      [] OTHER -> c

upper(s) == [i \in 1..Len(s) |-> UpperAtom(s[i])]

lower(s) == [i \in 1..Len(s) |-> LowerAtom(s[i])]

RECURSIVE lstrip(_, _)
lstrip(s, chars) ==
    IF s # <<>> /\ Head(s) \in chars THEN lstrip(Tail(s), chars) ELSE s

RECURSIVE rstrip(_, _)
rstrip(s, chars) ==
    IF s # <<>> /\ s[Len(s)] \in chars
    THEN rstrip(SubSeq(s, 1, Len(s) - 1), chars)
    ELSE s

\* str.strip(): whitespace off both ends
strip(s) == rstrip(lstrip(s, Whitespace), Whitespace)

\* "." in filename
HasDot(s) == \E i \in 1..Len(s) : s[i] = "."

LastDot(s) == CHOOSE i \in 1..Len(s) : s[i] = "." /\ \A j \in (i+1)..Len(s) : s[j] # "."

\* filename.rsplit(".", 1): one part without a dot, two parts with one
rsplit(s) ==
    IF HasDot(s)
    THEN <<SubSeq(s, 1, LastDot(s) - 1), SubSeq(s, LastDot(s) + 1, Len(s))>>
    ELSE <<s>>

----------------------------------------------------------------------------
(* configuration                                                           *)

ALLOWED_VIDEO_EXT == {<<"mp4">>, <<"mov">>}

ALLOWED_IMAGE_EXT == {<<"jpg">>, <<"jpeg">>, <<"png">>, <<"heic">>, <<"heif">>, <<"webp">>}

ALLOWED_EXTENSIONS == {<<"mp4">>, <<"mov">>}

CLEANUP_DELAY_SEC == 300

allowed_video(filename) ==
    HasDot(filename) /\ lower(rsplit(filename)[2]) \in ALLOWED_VIDEO_EXT

allowed_image(filename) ==
    HasDot(filename) /\ lower(rsplit(filename)[2]) \in ALLOWED_IMAGE_EXT

allowed_file(filename) ==
    HasDot(filename) /\ lower(rsplit(filename)[2]) \in ALLOWED_EXTENSIONS

----------------------------------------------------------------------------
(* werkzeug.utils.secure_filename                                          *)

\* "<cjk>" stands for a run of non-ASCII characters (NFKD leaves them non-ASCII)
NonAscii == {"<cjk>"}

PathSep == {"/"}

\* the characters _filename_ascii_strip_re keeps: [A-Za-z0-9_.-]
SafeAtom(c) == c \notin Whitespace /\ c \notin NonAscii /\ c \notin PathSep /\ c # "#"

\* "_".join(filename.split()): runs of whitespace become one "_", none at the ends
RECURSIVE JoinWords(_)
JoinWords(s) ==
    IF s = <<>> THEN <<>>
    ELSE IF Head(s) \in Whitespace
         THEN LET rest == lstrip(s, Whitespace)
              IN  IF rest = <<>> THEN <<>> ELSE <<"_">> \o JoinWords(rest)
         ELSE <<Head(s)>> \o JoinWords(Tail(s))

secure_filename(filename) ==
    LET ascii  == SelectSeq(filename, LAMBDA c : c \notin NonAscii)
        nosep  == [i \in 1..Len(ascii) |-> IF ascii[i] \in PathSep THEN " " ELSE ascii[i]]
        joined == JoinWords(lstrip(nosep, Whitespace))
        kept   == SelectSeq(joined, SafeAtom)
    IN  rstrip(lstrip(kept, {".", "_"}), {".", "_"})

----------------------------------------------------------------------------
(* exiftool command lines                                                  *)

Prog(name) == [kind |-> "prog", name |-> name, value |-> <<>>]

Opt(name) == [kind |-> "opt", name |-> name, value |-> <<>>]

\* "-NAME=VALUE" with the uid of the request after the value
Tag_with_uid(name, value) == [kind |-> "tag", name |-> name, value |-> value \o <<uid>>]

\* "-NAME=VALUE"
Tag(name, value) == [kind |-> "tag", name |-> name, value |-> value]

File(path) == [kind |-> "file", name |-> "", value |-> path]

\* inject_metadata with the canonical handler names ahead of the blanking
inject_metadata_cmd_set_first(filepath, make, model, date) ==
    << Prog("exiftool"),
       Opt("-overwrite_original"),
       Opt("-P"),
       Tag("QuickTime:HandlerName", <<"Core Media Video">>),
       Tag("QuickTime:VideoHandlerName", <<"Core Media Video">>),
       Tag("QuickTime:AudioHandlerName", <<"Core Media Audio">>),
       Tag("QuickTime:HandlerName", <<>>),
       Tag("QuickTime:VideoHandlerName", <<>>),
       Tag("QuickTime:AudioHandlerName", <<>>),
       Tag("QuickTime:Encoder", <<>>),
       Tag("QuickTime:Make", make),
       Tag("QuickTime:Model", model),
       Tag("Keys:Make", make),
       Tag("Keys:Model", model),
       Tag("UserData:Make", make),
       Tag("UserData:Model", model),
       Tag("com.apple.quicktime.make", make),
       Tag("com.apple.quicktime.model", model),
       Tag("QuickTime:CreationDate", date),
       Tag("com.apple.quicktime.creationdate", date),
       Tag("CreateDate", date),
       Tag("DateTimeOriginal", date),
       Tag("TrackCreateDate", date),
       Tag("MediaCreateDate", date),
       File(filepath) >>

\* inject_metadata with AudioHandlerName set first and blanked afterwards
inject_metadata_cmd_audio_late(filepath, make, model, date) ==
    LET c == inject_metadata_cmd_set_first(filepath, make, model, date)
    IN  [c EXCEPT ![4] = c[7], ![5] = c[8], ![7] = c[4], ![8] = c[5]]

\* inject_metadata with the blanking first, and Model ahead of Make
inject_metadata_cmd_model_first(filepath, make, model, date) ==
    LET c == inject_metadata_cmd_set_first(filepath, make, model, date)
    IN  [c EXCEPT ![4] = c[7], ![5] = c[8], ![6] = c[9], ![7] = c[10],
                  ![8] = c[4], ![9] = c[5], ![10] = c[6],
                  ![11] = c[12], ![12] = c[11]]

\* app.py inject_metadata: cmd
inject_metadata_cmd(filepath, make, model, date) ==
    << Prog("exiftool"),
       Opt("-overwrite_original"),
       Opt("-P"),
       Tag("QuickTime:HandlerName", <<>>),
       Tag("QuickTime:VideoHandlerName", <<>>),
       Tag("QuickTime:AudioHandlerName", <<>>),
       Tag("QuickTime:Encoder", <<>>),
       Tag("QuickTime:HandlerName", <<"Core Media Video">>),
       Tag("QuickTime:VideoHandlerName", <<"Core Media Video">>),
       Tag("QuickTime:AudioHandlerName", <<"Core Media Audio">>),
       Tag("QuickTime:Make", make),
       Tag("QuickTime:Model", model),
       Tag("Keys:Make", make),
       Tag("Keys:Model", model),
       Tag("UserData:Make", make),
       Tag("UserData:Model", model),
       Tag("com.apple.quicktime.make", make),
       Tag("com.apple.quicktime.model", model),
       Tag("QuickTime:CreationDate", date),
       Tag("com.apple.quicktime.creationdate", date),
       Tag("CreateDate", date),
       Tag("DateTimeOriginal", date),
       Tag("TrackCreateDate", date),
       Tag("MediaCreateDate", date),
       File(filepath) >>

\* inject_video_metadata without the still-frame anchor
inject_video_metadata_cmd_no_anchor(filepath, make, model, date, asset_id) ==
    LET c == inject_metadata_cmd(filepath, make, model, date)
    IN  SubSeq(c, 1, Len(c) - 1)
            \o << Tag("ContentIdentifier", asset_id),
                  Tag("Keys:ContentIdentifier", asset_id),
                  Tag("com.apple.quicktime.content.identifier", asset_id),
                  File(filepath) >>

\* dt_app.py inject_video_metadata: cmd
inject_video_metadata_cmd(filepath, make, model, date, asset_id) ==
    << Prog("exiftool"),
       Opt("-overwrite_original"),
       Opt("-P"),
       Tag("QuickTime:HandlerName", <<>>),
       Tag("QuickTime:VideoHandlerName", <<>>),
       Tag("QuickTime:AudioHandlerName", <<>>),
       Tag("QuickTime:Encoder", <<>>),
       Tag("QuickTime:HandlerName", <<"Core Media Video">>),
       Tag("QuickTime:VideoHandlerName", <<"Core Media Video">>),
       Tag("QuickTime:AudioHandlerName", <<"Core Media Audio">>),
       Tag("QuickTime:Make", make),
       Tag("QuickTime:Model", model),
       Tag("Keys:Make", make),
       Tag("Keys:Model", model),
       Tag("UserData:Make", make),
       Tag("UserData:Model", model),
       Tag("com.apple.quicktime.make", make),
       Tag("com.apple.quicktime.model", model),
       Tag("QuickTime:CreationDate", date),
       Tag("com.apple.quicktime.creationdate", date),
       Tag("CreateDate", date),
       Tag("DateTimeOriginal", date),
       Tag("TrackCreateDate", date),
       Tag("MediaCreateDate", date),
       Tag("ContentIdentifier", asset_id),
       Tag("Keys:ContentIdentifier", asset_id),
       Tag("com.apple.quicktime.content.identifier", asset_id),
       Tag("Keys:StillImageTime", <<"0">>),
       File(filepath) >>

\* dt_app.py inject_image_metadata: cmd
inject_image_metadata_cmd(filepath, make, model, date, asset_id, aperture, focal, focal35, iso, lens, width, height) ==
    << Prog("exiftool"),
       Opt("-overwrite_original"),
       Opt("-P"),
       Tag("Make", make),
       Tag("Model", model),
       Tag("DateTime", date),
       Tag("DateTimeOriginal", date),
       Tag("CreateDate", date),
       Tag("LensModel", lens),
       Tag("FNumber", aperture),
       Tag("FocalLength", focal),
       Tag("FocalLengthIn35mmFormat", focal35),
       Tag("ISO", iso),
       Tag("ExifImageWidth", width),
       Tag("ExifImageHeight", height),
       Tag("CustomRendered", <<"6">>),
       Tag("Apple:ContentIdentifier", asset_id),
       Tag("XMP-apple-fi:ContentIdentifier", asset_id),
       Tag("XMP:ContentIdentifier", asset_id),
       File(filepath) >>

\* the Tag Plan of a command line: its "-NAME=VALUE" arguments, in order
TagPlan(cmd) == SelectSeq(cmd, LAMBDA a : a.kind = "tag")

----------------------------------------------------------------------------
(* the external tools, as the code relies on them                          *)

\* one "-NAME=VALUE": an empty value removes the tag, another one sets it
WriteTag(tags, e) ==
    IF e.value = <<>>
    THEN [t \in DOMAIN tags \ {e.name} |-> tags[t]]
    ELSE [t \in DOMAIN tags \cup {e.name} |-> IF t = e.name THEN e.value ELSE tags[t]]

\* exiftool applies the arguments of one invocation from left to right
RECURSIVE ExifToolWrite(_, _)
ExifToolWrite(tags, plan) ==
    IF plan = <<>> THEN tags
    ELSE ExifToolWrite(WriteTag(tags, Head(plan)), Tail(plan))

NoTags == [t \in {} |-> <<>>]

\* what FFmpeg leaves in the handler and encoder fields of a file it muxes
FFmpegFingerprint ==
    [t \in {"QuickTime:HandlerName", "QuickTime:VideoHandlerName",
            "QuickTime:AudioHandlerName", "QuickTime:Encoder"} |->
        CASE t = "QuickTime:AudioHandlerName" -> <<"SoundHandler">>
          [] t = "QuickTime:Encoder" -> <<"Lavf">>
          [] OTHER -> <<"VideoHandler">>]

\* a file of UPLOAD_DIR: what it holds, in which container, with which tags
Content(payload, format, tags, whole) ==
    [payload |-> payload, format |-> format, tags |-> tags, whole |-> whole,
     entries |-> <<>>]

\* file.save(path)
Uploaded(payload, ext) == Content(payload, ext, NoTags, TRUE)

\* a file that its writer did not finish
Partial(payload, ext) == Content(payload, ext, NoTags, FALSE)

\* ffmpeg -c copy ... out.mov
Remuxed(src) == Content(src.payload, <<"mov">>, FFmpegFingerprint, TRUE)

\* ffmpeg -i src -q:v 1 converted.jpg
Converted(src) == Content(src.payload, <<"jpg">>, NoTags, TRUE)

\* exiftool -overwrite_original on a file
Injected(file, cmd) == [file EXCEPT !.tags = ExifToolWrite(file.tags, TagPlan(cmd))]

----------------------------------------------------------------------------
(* request.files, request.form                                             *)

\* request.form.get(key, default)
form_get(form, key, default) == IF key \in DOMAIN form THEN form[key] ELSE default

\* the literal that follows {model} in the default of lens
LensSuffix == <<" ", "<rear camera>">>

DefaultArgs ==
    [aperture |-> <<"1.78">>, focal |-> <<"24">>, focal35 |-> <<"24">>,
     iso |-> <<"100">>, width |-> <<"4032">>, height |-> <<"3024">>]

\* live_required without the upper() of asset_id
live_required_no_upper(form) ==
    [make     |-> strip(form_get(form, "make", <<>>)),
     model    |-> strip(form_get(form, "model", <<>>)),
     date     |-> strip(form_get(form, "date", <<>>)),
     asset_id |-> strip(form_get(form, "asset_id", <<>>))]

\* process_live: make, model, date, asset_id read from the form
live_required(form) ==
    [make     |-> strip(form_get(form, "make", <<>>)),
     model    |-> strip(form_get(form, "model", <<>>)),
     date     |-> strip(form_get(form, "date", <<>>)),
     asset_id |-> upper(strip(form_get(form, "asset_id", <<>>)))]

\* live_optional with the defaults of width and height exchanged
live_optional_swapped(form, model) ==
    [aperture |-> strip(form_get(form, "aperture", DefaultArgs.aperture)),
     focal    |-> strip(form_get(form, "focal", DefaultArgs.focal)),
     focal35  |-> strip(form_get(form, "focal35", DefaultArgs.focal35)),
     iso      |-> strip(form_get(form, "iso", DefaultArgs.iso)),
     lens     |-> strip(form_get(form, "lens", model \o LensSuffix)),
     width    |-> strip(form_get(form, "width", DefaultArgs.height)),
     height   |-> strip(form_get(form, "height", DefaultArgs.width))]

\* live_optional with the default also taken for a value that is blank
live_optional_or_default(form, model) ==
    LET get(key, default) ==
            IF key \in DOMAIN form /\ strip(form[key]) # <<>>
            THEN strip(form[key])
            ELSE strip(default)
    IN  [aperture |-> get("aperture", DefaultArgs.aperture),
         focal    |-> get("focal", DefaultArgs.focal),
         focal35  |-> get("focal35", DefaultArgs.focal35),
         iso      |-> get("iso", DefaultArgs.iso),
         lens     |-> get("lens", model \o LensSuffix),
         width    |-> get("width", DefaultArgs.width),
         height   |-> get("height", DefaultArgs.height)]

\* process_live: the optional EXIF parameters, with their defaults
live_optional(form, model) ==
    [aperture |-> strip(form_get(form, "aperture", DefaultArgs.aperture)),
     focal    |-> strip(form_get(form, "focal", DefaultArgs.focal)),
     focal35  |-> strip(form_get(form, "focal35", DefaultArgs.focal35)),
     iso      |-> strip(form_get(form, "iso", DefaultArgs.iso)),
     lens     |-> strip(form_get(form, "lens", model \o LensSuffix)),
     width    |-> strip(form_get(form, "width", DefaultArgs.width)),
     height   |-> strip(form_get(form, "height", DefaultArgs.height))]

\* process_video: make, model, date read from the form
video_required(form) ==
    [make  |-> strip(form_get(form, "make", <<>>)),
     model |-> strip(form_get(form, "model", <<>>)),
     date  |-> strip(form_get(form, "date", <<>>))]

\* missing = [k for k, v in {...}.items() if not v]
missing(required) == {k \in DOMAIN required : required[k] = <<>>}

\* live_validate without the check of the required parameters
live_validate_no_missing(req) ==
    IF "photo" \notin DOMAIN req.files \/ "video" \notin DOMAIN req.files
        THEN "photo and video are both required"
    ELSE IF req.files["photo"] = <<>> \/ req.files["video"] = <<>>
        THEN "empty file name"
    ELSE IF ~ allowed_image(req.files["photo"])
        THEN "image extension not allowed"
    ELSE IF ~ allowed_video(req.files["video"])
        THEN "video extension not allowed"
    ELSE ""

\* process_live steps 1 and 2: the 400 answer, "" when the request passes
live_validate(req) ==
    IF "photo" \notin DOMAIN req.files \/ "video" \notin DOMAIN req.files
        THEN "photo and video are both required"
    ELSE IF req.files["photo"] = <<>> \/ req.files["video"] = <<>>
        THEN "empty file name"
    ELSE IF ~ allowed_image(req.files["photo"])
        THEN "image extension not allowed"
    ELSE IF ~ allowed_video(req.files["video"])
        THEN "video extension not allowed"
    ELSE IF missing(live_required(req.form)) # {}
        THEN "missing required parameter"
    ELSE ""

\* process_video steps 1 and 2: the 400 answer, "" when the request passes
video_validate(req) ==
    IF "file" \notin DOMAIN req.files
        THEN "file is required"
    ELSE IF req.files["file"] = <<>>
        THEN "no file selected"
    ELSE IF ~ allowed_file(req.files["file"])
        THEN "video extension not allowed"
    ELSE IF missing(video_required(req.form)) # {}
        THEN "missing required parameter"
    ELSE ""


----------------------------------------------------------------------------
(* scratch paths and deletion threads                                      *)

\* scratch names without the uid of the request
Path_shared(prefix, u, ext) == <<prefix, "", ".">> \o ext

\* str(UPLOAD_DIR / f"{prefix}{uid}.{ext}")
Path(prefix, u, ext) == <<prefix, u, ".">> \o ext

SrcPhoto(u, ext) == Path("src_photo_", u, ext)

SrcVideo(u, ext) == Path("src_video_", u, ext)

OutPhoto(u) == Path("out_photo_", u, <<"jpg">>)

OutVideo(u) == Path("out_video_", u, <<"mov">>)

OutZip(u) == Path("live_", u, <<"zip">>)

ConvPhoto(u) == Path("conv_photo_", u, <<"jpg">>)

Src(u, ext) == Path("src_", u, ext)

Out(u) == Path("out_", u, <<"mov">>)

src_photo == SrcPhoto(uid, photo_ext)

src_video == SrcVideo(uid, video_ext)

out_photo == OutPhoto(uid)

out_video == OutVideo(uid)

out_zip == OutZip(uid)

converted == ConvPhoto(uid)

src == Src(uid, src_ext)

out == Out(uid)

\* schedule_delete(*paths, delay): one more daemon thread, asleep until wake
schedule_delete(ths, paths, delay) ==
    Append(ths, [paths |-> paths, delay |-> delay, wake |-> now + delay, next |-> 1,
                 raised |-> FALSE])

\* process_live.cleanup_all: the files of tmp_files that exist, without delay
cleanup_all(ths, files, tmp) ==
    schedule_delete(ths, SelectSeq(tmp, LAMBDA f : f \in DOMAIN files), 0)

\* the directory without the file at p
Removed(files, p) == [q \in DOMAIN files \ {p} |-> files[q]]

\* os.remove(p): the file goes, or there is none and FileNotFoundError is raised
os_remove(files, p) ==
    IF p \in DOMAIN files
    THEN [files |-> Removed(files, p), error |-> "none"]
    ELSE [files |-> files, error |-> "FileNotFoundError"]

\* a worker with no except clause: every error of os.remove leaves the loop
worker_except_nothing(error) == FALSE

\* _worker's except clauses: FileNotFoundError is passed over, any other
\* OSError is logged; either way the loop goes on
worker_except(error) == error \in {"FileNotFoundError", "OSError"}

\* a file written (or overwritten) at path p
Written(files, p, c) == [q \in DOMAIN files \cup {p} |-> IF q = p THEN c ELSE files[q]]

\* a writer that failed: it left nothing, or an unfinished file
Broken(files, p, left, payload, ext) ==
    IF left THEN Written(files, p, Partial(payload, ext)) ELSE files

----------------------------------------------------------------------------
(* ffmpeg command lines                                                    *)

\* remux_to_mov: cmd
remux_cmd(source, target) ==
    << Prog("ffmpeg"), Opt("-y"), Opt("-i"), File(source), Opt("-map"), Opt("0"),
       Opt("-c"), Opt("copy"), Opt("-ignore_unknown"), Opt("-movflags"),
       Opt("+faststart+use_metadata_tags"), File(target) >>

\* process_live step 5: conv_cmd
conv_cmd(source, target) ==
    << Prog("ffmpeg"), Opt("-y"), Opt("-i"), File(source), Opt("-q:v"), Opt("1"),
       File(target) >>

Call(tool, cmd, target) == [tool |-> tool, cmd |-> cmd, target |-> target]

\* an injector's invocation of exiftool, with the tag count it logs before:
\* log.info("... %d ...", len(cmd) - 3); subprocess.run(cmd, ...)
Injection(cmd, target) ==
    [tool |-> "exiftool", cmd |-> cmd, target |-> target, reported |-> Len(cmd) - 3]

----------------------------------------------------------------------------
(* responses                                                               *)

\* diag: how many characters of a tool's diagnostics (the tail of its stderr,
\* or str() of the exception) the error message carries after its fixed text
NoResponse == [status |-> 0, error |-> "", file |-> <<>>, diag |-> 0]

Error(status, message) == [status |-> status, error |-> message, file |-> <<>>, diag |-> 0]

\* jsonify({"error": f"<fixed text>{diagnostics}"}), status
ErrorWith(status, message, diag) ==
    [status |-> status, error |-> message, file |-> <<>>, diag |-> diag]

\* send_file(path, as_attachment=True)
Attachment(path) == [status |-> 200, error |-> "", file |-> path, diag |-> 0]

\* len(text[-k:]) for a text of n characters
LastChars(n, k) == IF n < k THEN n ELSE k

\* the lengths of what a tool that fails writes on its stderr
StderrLens == {250, 5000}

\* characters of an atom; the non-ASCII runs stand for the literals of the code
AtomLen(a) ==
    CASE a = "<cjk>" -> 2
      [] a = "<rear camera>" -> 5
      [] OTHER -> Len(a)

RECURSIVE TextLen(_)
TextLen(text) == IF text = <<>> THEN 0 ELSE AtomLen(Head(text)) + TextLen(Tail(text))

\* len of one argument of a command line
ArgLen(a) ==
    CASE a.kind = "tag" -> 1 + Len(a.name) + 1 + TextLen(a.value)
      [] a.kind = "file" -> TextLen(a.value)
      [] OTHER -> Len(a.name)

RECURSIVE ReprLen(_)
\* len(repr(cmd)) without the brackets: 'arg', 'arg', ...
ReprLen(cmd) ==
    IF cmd = <<>> THEN 0
    ELSE ArgLen(Head(cmd)) + 2 + (IF Len(cmd) > 1 THEN 2 ELSE 0) + ReprLen(Tail(cmd))

\* len(str(subprocess.TimeoutExpired(cmd, 60))):
\* "Command '[...]' timed out after 60 seconds"
TimeoutExpiredLen(cmd) ==
    Len("Command '") + 2 + ReprLen(cmd) + Len("' timed out after 60 seconds")

\* an exception no except clause of the view catches: Flask answers 500
Unhandled == Error(500, "internal server error")

\* how a try statement goes on after its finally clause
Nothing == [kind |-> "none", exc |-> "", response |-> NoResponse]

Returning(resp) == [kind |-> "return", exc |-> "", response |-> resp]

Raising(exc) == [kind |-> "raise", exc |-> exc, response |-> Unhandled]

Step(name, ok) == [step |-> name, ok |-> ok]

Outcomes == {"ok", "nonzero", "timeout"}

----------------------------------------------------------------------------
(* the requests                                                            *)

UIDs == {"9f3c", "c07a"}

PhotoNames ==
    { <<>>, <<"IMG", ".", "JPG">>, <<"a", ".", "png">>, <<"a", ".", "gif">>,
      <<"<cjk>", ".", "jpg">>, <<"a">> }

VideoNames == { <<>>, <<"v", ".", "mp4">>, <<"v", ".", "avi">> }

FileNames == { <<>>, <<"v", ".", "MOV">>, <<"<cjk>", ".", "mp4">>, <<"v", ".", "avi">> }

FormValues ==
    [make     |-> { <<"\t">>, <<" ", "Apple">> },
     model    |-> { <<>>, <<"iPhone", " ", "17">> },
     date     |-> { <<" ">>, <<"2026:02:22", " ", "12:00:00">> },
     asset_id |-> { <<" ">>, <<" ", "ab12", "\t">>, <<"a", "B">> }]

\* every form over some of the fields of names, each present field with one
\* of its values
RECURSIVE Forms(_, _)

Forms(names, values) ==
    IF names = {}
    THEN { [k \in {} |-> <<>>] }
    ELSE LET n == CHOOSE k \in names : TRUE
             rest == Forms(names \ {n}, values)
         IN  rest \cup { (n :> v) @@ f : v \in values[n], f \in rest }

\* the optional fields of a pairing request: none, all, or some of them
OptionalForms ==
    { [k \in {} |-> <<>>],
      [aperture |-> <<"2.8">>, focal |-> <<" ", "50">>, focal35 |-> <<"75">>,
       iso |-> <<"400">>, lens |-> <<"tele">>, width |-> <<"1920">>,
       height |-> <<"1080", " ">>],
      [iso |-> <<" ">>, width |-> <<"1920">>] }

LiveRequests ==
    { [endpoint |-> "live", files |-> fl, form |-> fr @@ fo] :
        fl \in Forms({"photo", "video"}, [photo |-> PhotoNames, video |-> VideoNames]),
        fr \in Forms({"make", "model", "date", "asset_id"}, FormValues),
        fo \in OptionalForms }

VideoRequests ==
    { [endpoint |-> "video", files |-> fl, form |-> fr] :
        fl \in Forms({"file"}, [file |-> FileNames]),
        fr \in Forms({"make", "model", "date"}, FormValues) }

Requests == LiveRequests \cup VideoRequests

NoArgs == [k \in {} |-> <<>>]

\* the locals of a handler that has just received req
Received(req) ==
    [request |-> req, pc |-> "received", uid |-> "", args |-> NoArgs,
     photo_ext |-> <<>>, video_ext |-> <<>>, src_ext |-> <<>>, tmp_files |-> <<>>,
     current_photo |-> <<>>, pending |-> Nothing, steps |-> <<>>,
     response |-> NoResponse, clock0 |-> 0, switches |-> 0]

\* the worker serves one request only
NoHandler == [pc |-> "none", uid |-> "", switches |-> 0]

Init ==
    /\ request \in Requests
    /\ pc = "received"
    /\ uid = ""
    /\ args = NoArgs
    /\ photo_ext = <<>>
    /\ video_ext = <<>>
    /\ src_ext = <<>>
    /\ tmp_files = <<>>
    /\ current_photo = <<>>
    /\ pending = Nothing
    /\ fs = [p \in {} |-> Partial("", <<>>)]
    /\ threads = <<>>
    /\ calls = <<>>
    /\ steps = <<>>
    /\ response = NoResponse
    /\ now = 0
    /\ clock0 = 0
    /\ other = NoHandler

\* the view returns resp (or Flask answers for it)
Answer(resp) ==
    /\ response' = resp
    /\ clock0' = now
    /\ pc' = "done"


----------------------------------------------------------------------------
(* /api/process-live                                                       *)

\* steps 1, 2 and the optional parameters
LiveValidate ==
    /\ pc = "received"
    /\ request.endpoint = "live"
    /\ LET message == live_validate(request)
           required == live_required(request.form)
       IN  IF message # ""
           THEN /\ Answer(Error(400, message))
                /\ steps' = Append(steps, Step("validate", FALSE))
                /\ args' = args
           ELSE /\ args' = required @@ live_optional(request.form, required.model)
                /\ steps' = Append(steps, Step("validate", TRUE))
                /\ pc' = "paths"
                /\ UNCHANGED <<response, clock0>>
    /\ UNCHANGED <<other, request, uid, photo_ext, video_ext, src_ext, tmp_files,
                   current_photo, pending, fs, threads, calls, now>>

\* step 3: uid, the extensions of the sanitised names, tmp_files
LivePaths ==
    /\ pc = "paths"
    /\ request.endpoint = "live"
    /\ \E u \in UIDs \ {other.uid} :
        LET photo == rsplit(secure_filename(request.files["photo"]))
            video == rsplit(secure_filename(request.files["video"]))
        IN  /\ uid' = u
            /\ IF Len(photo) < 2 \/ Len(video) < 2
               THEN \* rsplit(".", 1)[1] raises IndexError
                    /\ Answer(Unhandled)
                    /\ UNCHANGED <<photo_ext, video_ext, tmp_files>>
               ELSE /\ photo_ext' = lower(photo[2])
                    /\ video_ext' = lower(video[2])
                    /\ tmp_files' = << SrcPhoto(u, lower(photo[2])), SrcVideo(u, lower(video[2])),
                                       OutPhoto(u), OutVideo(u), OutZip(u) >>
                    /\ pc' = "save"
                    /\ UNCHANGED <<response, clock0>>
    /\ UNCHANGED <<other, request, args, src_ext, current_photo, pending, fs, threads,
                   calls, steps, now>>

\* step 4: photo_file.save, video_file.save
LiveSave ==
    /\ pc = "save"
    /\ request.endpoint = "live"
    /\ \E outcome \in {"ok", "photo", "video"}, left \in BOOLEAN :
        LET photo == Written(fs, src_photo, Uploaded("photo", photo_ext))
            files == CASE outcome = "ok" ->
                            Written(photo, src_video, Uploaded("video", video_ext))
                       [] outcome = "photo" ->
                            Broken(fs, src_photo, left, "photo", photo_ext)
                       [] outcome = "video" ->
                            Broken(photo, src_video, left, "video", video_ext)
        IN  /\ fs' = files
            /\ steps' = Append(steps, Step("save", outcome = "ok"))
            /\ IF outcome = "ok"
               THEN /\ pc' = "convert"
                    /\ UNCHANGED <<threads, response, clock0>>
               ELSE /\ threads' = cleanup_all(threads, files, tmp_files)
                    /\ Answer(Error(500, "save failed"))
    /\ UNCHANGED <<other, request, uid, args, photo_ext, video_ext, src_ext, tmp_files,
                   current_photo, pending, calls, now>>

\* step 5, the try block up to the copy: convert a photo that is not a JPEG
LiveConvert ==
    /\ pc = "convert"
    /\ request.endpoint = "live"
    /\ IF photo_ext \in {<<"jpg">>, <<"jpeg">>}
       THEN /\ current_photo' = src_photo
            /\ pc' = "copy"
            /\ UNCHANGED <<tmp_files, fs, threads, calls, steps, pending>>
       ELSE \E outcome \in Outcomes, left \in BOOLEAN :
            /\ tmp_files' = Append(tmp_files, converted)
            /\ calls' = Append(calls, Call("ffmpeg", conv_cmd(src_photo, converted), converted))
            /\ steps' = Append(steps, Step("convert", outcome = "ok"))
            /\ CASE outcome = "ok" ->
                    /\ fs' = Written(fs, converted, Converted(fs[src_photo]))
                    /\ threads' = schedule_delete(threads, <<src_photo>>, 0)
                    /\ current_photo' = converted
                    /\ pending' = Nothing
                    /\ pc' = "copy"
                 [] outcome = "nonzero" ->
                    /\ fs' = Broken(fs, converted, left, "photo", <<"jpg">>)
                    /\ current_photo' = src_photo
                    /\ pending' = Raising("RuntimeError")
                    /\ pc' = "photo_except"
                    /\ UNCHANGED threads
                 [] outcome = "timeout" ->
                    /\ fs' = Broken(fs, converted, left, "photo", <<"jpg">>)
                    /\ current_photo' = src_photo
                    /\ pending' = Raising("TimeoutExpired")
                    /\ pc' = "photo_finally"
                    /\ UNCHANGED threads
    /\ UNCHANGED <<other, request, uid, args, photo_ext, video_ext, src_ext, response,
                   now, clock0>>

\* step 5: shutil.copy2(current_photo, out_photo)
LiveCopy ==
    /\ pc = "copy"
    /\ request.endpoint = "live"
    /\ \E outcome \in {"ok", "oserror"}, left \in BOOLEAN :
        /\ outcome = "ok" => current_photo \in DOMAIN fs
        /\ steps' = Append(steps, Step("copy", outcome = "ok"))
        /\ IF outcome = "ok"
           THEN /\ fs' = Written(fs, out_photo, fs[current_photo])
                /\ pending' = Nothing
           ELSE /\ fs' = Broken(fs, out_photo, left, "photo", <<"jpg">>)
                /\ pending' = Raising("OSError")
        /\ pc' = "photo_finally"
    /\ UNCHANGED <<other, request, uid, args, photo_ext, video_ext, src_ext, tmp_files,
                   current_photo, threads, calls, response, now, clock0>>

\* step 5: except RuntimeError
LivePhotoExcept ==
    /\ pc = "photo_except"
    /\ request.endpoint = "live"
    /\ threads' = cleanup_all(threads, fs, tmp_files)
    /\ \E n \in StderrLens :
          pending' = Returning(ErrorWith(500, "image conversion failed", LastChars(n, 200)))
    /\ pc' = "photo_finally"
    /\ UNCHANGED <<other, request, uid, args, photo_ext, video_ext, src_ext, tmp_files,
                   current_photo, fs, calls, steps, response, now, clock0>>

\* step 5: finally
LivePhotoFinally ==
    /\ pc = "photo_finally"
    /\ request.endpoint = "live"
    /\ threads' = IF current_photo # out_photo /\ current_photo \in DOMAIN fs
                  THEN schedule_delete(threads, <<current_photo>>, 0)
                  ELSE threads
    /\ IF pending.kind = "none"
       THEN /\ pc' = "remux"
            /\ UNCHANGED <<response, clock0>>
       ELSE Answer(pending.response)
    /\ pending' = Nothing
    /\ UNCHANGED <<other, request, uid, args, photo_ext, video_ext, src_ext, tmp_files,
                   current_photo, fs, calls, steps, now>>

\* step 6: remux_to_mov(src_video, out_video)
LiveRemux ==
    /\ pc = "remux"
    /\ request.endpoint = "live"
    /\ \E outcome \in Outcomes, left \in BOOLEAN :
        /\ outcome = "ok" => src_video \in DOMAIN fs
        /\ calls' = Append(calls, Call("ffmpeg", remux_cmd(src_video, out_video), out_video))
        /\ steps' = Append(steps, Step("remux", outcome = "ok"))
        /\ CASE outcome = "ok" ->
                /\ fs' = Written(fs, out_video, Remuxed(fs[src_video]))
                /\ pending' = Nothing
                /\ pc' = "remux_finally"
             [] outcome = "nonzero" ->
                /\ fs' = Broken(fs, out_video, left, "video", <<"mov">>)
                /\ pending' = Raising("RuntimeError")
                /\ pc' = "remux_except"
             [] outcome = "timeout" ->
                /\ fs' = Broken(fs, out_video, left, "video", <<"mov">>)
                /\ pending' = Raising("TimeoutExpired")
                /\ pc' = "remux_except"
    /\ UNCHANGED <<other, request, uid, args, photo_ext, video_ext, src_ext, tmp_files,
                   current_photo, threads, response, now, clock0>>

\* step 6: except RuntimeError, except subprocess.TimeoutExpired
LiveRemuxExcept ==
    /\ pc = "remux_except"
    /\ request.endpoint = "live"
    /\ threads' = cleanup_all(threads, fs, tmp_files)
    /\ IF pending.exc = "TimeoutExpired"
       THEN pending' = Returning(Error(500, "FFmpeg timeout"))
       ELSE \E n \in StderrLens :
               pending' = Returning(ErrorWith(500, "FFmpeg remux failed",
                                              LastChars(LastChars(n, 1000), 300)))
    /\ pc' = "remux_finally"
    /\ UNCHANGED <<other, request, uid, args, photo_ext, video_ext, src_ext, tmp_files,
                   current_photo, fs, calls, steps, response, now, clock0>>

\* step 6: finally
LiveRemuxFinally ==
    /\ pc = "remux_finally"
    /\ request.endpoint = "live"
    /\ threads' = schedule_delete(threads, <<src_video>>, 0)
    /\ IF pending.kind = "none"
       THEN /\ pc' = "inject_image"
            /\ UNCHANGED <<response, clock0>>
       ELSE Answer(pending.response)
    /\ pending' = Nothing
    /\ UNCHANGED <<other, request, uid, args, photo_ext, video_ext, src_ext, tmp_files,
                   current_photo, fs, calls, steps, now>>


\* step 7 with an except clause that does not return
LiveInjectImage_no_return ==
    /\ pc = "inject_image"
    /\ request.endpoint = "live"
    /\ \E outcome \in Outcomes :
        LET cmd == inject_image_metadata_cmd(out_photo, args.make, args.model, args.date,
                       args.asset_id, args.aperture, args.focal, args.focal35,
                       args.iso, args.lens, args.width, args.height)
        IN  /\ outcome = "ok" => out_photo \in DOMAIN fs
            /\ calls' = Append(calls, Injection( cmd, out_photo))
            /\ steps' = Append(steps, Step("inject_image", outcome = "ok"))
            /\ pc' = "inject_video"
            /\ IF outcome = "ok"
               THEN /\ fs' = Written(fs, out_photo, Injected(fs[out_photo], cmd))
                    /\ UNCHANGED threads
               ELSE /\ threads' = cleanup_all(threads, fs, tmp_files)
                    /\ fs' = fs
    /\ UNCHANGED <<other, request, uid, args, photo_ext, video_ext, src_ext, tmp_files,
                   current_photo, pending, now, response, clock0>>

\* step 7: inject_image_metadata(out_photo, ...)
LiveInjectImage ==
    /\ pc = "inject_image"
    /\ request.endpoint = "live"
    /\ \E outcome \in Outcomes :
        LET cmd == inject_image_metadata_cmd(out_photo, args.make, args.model, args.date,
                       args.asset_id, args.aperture, args.focal, args.focal35,
                       args.iso, args.lens, args.width, args.height)
        IN  /\ outcome = "ok" => out_photo \in DOMAIN fs
            /\ calls' = Append(calls, Injection( cmd, out_photo))
            /\ steps' = Append(steps, Step("inject_image", outcome = "ok"))
            /\ IF outcome = "ok"
               THEN /\ fs' = Written(fs, out_photo, Injected(fs[out_photo], cmd))
                    /\ pc' = "inject_video"
                    /\ UNCHANGED <<threads, response, clock0>>
               ELSE /\ threads' = cleanup_all(threads, fs, tmp_files)
                    /\ \E n \in StderrLens :
                          Answer(ErrorWith(500, "image processing failed",
                                           IF outcome = "timeout"
                                           THEN TimeoutExpiredLen(cmd)
                                           ELSE LastChars(n, 200)))
                    /\ fs' = fs
    /\ UNCHANGED <<other, request, uid, args, photo_ext, video_ext, src_ext, tmp_files,
                   current_photo, pending, now>>

\* step 8: inject_video_metadata(out_video, ...)
LiveInjectVideo ==
    /\ pc = "inject_video"
    /\ request.endpoint = "live"
    /\ \E outcome \in Outcomes :
        LET cmd == inject_video_metadata_cmd(out_video, args.make, args.model, args.date,
                       args.asset_id)
        IN  /\ outcome = "ok" => out_video \in DOMAIN fs
            /\ calls' = Append(calls, Injection( cmd, out_video))
            /\ steps' = Append(steps, Step("inject_video", outcome = "ok"))
            /\ IF outcome = "ok"
               THEN /\ fs' = Written(fs, out_video, Injected(fs[out_video], cmd))
                    /\ pc' = "package"
                    /\ UNCHANGED <<threads, response, clock0>>
               ELSE /\ threads' = cleanup_all(threads, fs, tmp_files)
                    /\ \E n \in StderrLens :
                          Answer(ErrorWith(500, "video processing failed",
                                           IF outcome = "timeout"
                                           THEN TimeoutExpiredLen(cmd)
                                           ELSE LastChars(n, 200)))
                    /\ fs' = fs
    /\ UNCHANGED <<other, request, uid, args, photo_ext, video_ext, src_ext, tmp_files,
                   current_photo, pending, now>>

\* one member of the archive: zf.write(path, arcname=...)
ZipEntry(arcname, compress_type, data) ==
    [arcname |-> arcname, compress_type |-> compress_type, data |-> data]

\* the archive with the two members under each other's name
zip_archive_swapped(photo, video) ==
    [payload |-> "zip", format |-> <<"zip">>, tags |-> NoTags, whole |-> TRUE,
     entries |-> << ZipEntry("IMG_LIVE.JPG", "ZIP_STORED", video),
                    ZipEntry("IMG_LIVE.MOV", "ZIP_STORED", photo) >>]

\* step 9: zipfile.ZipFile(out_zip, "w", zipfile.ZIP_STORED) and its two writes
zip_archive(photo, video) ==
    [payload |-> "zip", format |-> <<"zip">>, tags |-> NoTags, whole |-> TRUE,
     entries |-> << ZipEntry("IMG_LIVE.JPG", "ZIP_STORED", photo),
                    ZipEntry("IMG_LIVE.MOV", "ZIP_STORED", video) >>]

\* step 9
LivePackage ==
    /\ pc = "package"
    /\ request.endpoint = "live"
    /\ \E outcome \in {"ok", "oserror"}, left \in BOOLEAN :
        /\ outcome = "ok" => out_photo \in DOMAIN fs /\ out_video \in DOMAIN fs
        /\ steps' = Append(steps, Step("package", outcome = "ok"))
        /\ IF outcome = "ok"
           THEN /\ fs' = Written(fs, out_zip, zip_archive(fs[out_photo], fs[out_video]))
                /\ pc' = "respond"
                /\ UNCHANGED <<threads, response, clock0>>
           ELSE /\ fs' = Broken(fs, out_zip, left, "zip", <<"zip">>)
                /\ threads' = cleanup_all(threads, fs', tmp_files)
                /\ Answer(Error(500, "ZIP packaging failed"))
    /\ UNCHANGED <<other, request, uid, args, photo_ext, video_ext, src_ext, tmp_files,
                   current_photo, pending, calls, now>>

\* _cleanup with the archive deleted like the intermediate outputs
live_cleanup_no_delay(ths) ==
    schedule_delete(ths, <<out_photo, out_video, out_zip>>, 0)

\* _cleanup that leaves the two packaged outputs alone
live_cleanup_zip_only(ths) == schedule_delete(ths, <<out_zip>>, CLEANUP_DELAY_SEC)

\* step 10: process_live._cleanup, run by after_this_request
live_cleanup(ths) ==
    schedule_delete(schedule_delete(ths, <<out_photo, out_video>>, 0),
                    <<out_zip>>, CLEANUP_DELAY_SEC)

\* steps 10 and 11: send_file(out_zip), then _cleanup
LiveRespond ==
    /\ pc = "respond"
    /\ request.endpoint = "live"
    /\ steps' = Append(steps, Step("deliver", out_zip \in DOMAIN fs))
    /\ threads' = live_cleanup(threads)
    /\ Answer(IF out_zip \in DOMAIN fs THEN Attachment(out_zip) ELSE Unhandled)
    /\ UNCHANGED <<other, request, uid, args, photo_ext, video_ext, src_ext, tmp_files,
                   current_photo, pending, fs, calls, now>>

----------------------------------------------------------------------------
(* /api/process-video                                                      *)

\* steps 1 and 2
VideoValidate ==
    /\ pc = "received"
    /\ request.endpoint = "video"
    /\ LET message == video_validate(request)
       IN  IF message # ""
           THEN /\ Answer(Error(400, message))
                /\ steps' = Append(steps, Step("validate", FALSE))
                /\ args' = args
           ELSE /\ args' = video_required(request.form)
                /\ steps' = Append(steps, Step("validate", TRUE))
                /\ pc' = "paths"
                /\ UNCHANGED <<response, clock0>>
    /\ UNCHANGED <<other, request, uid, photo_ext, video_ext, src_ext, tmp_files,
                   current_photo, pending, fs, threads, calls, now>>

\* step 3: uid, src_ext, src, out
VideoPaths ==
    /\ pc = "paths"
    /\ request.endpoint = "video"
    /\ \E u \in UIDs \ {other.uid} :
        LET name == rsplit(secure_filename(request.files["file"]))
        IN  /\ uid' = u
            /\ IF Len(name) < 2
               THEN \* rsplit(".", 1)[1] raises IndexError
                    /\ Answer(Unhandled)
                    /\ UNCHANGED src_ext
               ELSE /\ src_ext' = lower(name[2])
                    /\ pc' = "save"
                    /\ UNCHANGED <<response, clock0>>
    /\ UNCHANGED <<other, request, args, photo_ext, video_ext, tmp_files, current_photo,
                   pending, fs, threads, calls, steps, now>>

\* step 3: file.save(src)
VideoSave ==
    /\ pc = "save"
    /\ request.endpoint = "video"
    /\ \E outcome \in {"ok", "oserror"}, left \in BOOLEAN :
        /\ steps' = Append(steps, Step("save", outcome = "ok"))
        /\ IF outcome = "ok"
           THEN /\ fs' = Written(fs, src, Uploaded("video", src_ext))
                /\ pc' = "remux"
                /\ UNCHANGED <<response, clock0>>
           ELSE /\ fs' = Broken(fs, src, left, "video", src_ext)
                /\ Answer(Error(500, "save failed"))
    /\ UNCHANGED <<other, request, uid, args, photo_ext, video_ext, src_ext, tmp_files,
                   current_photo, pending, threads, calls, now>>

\* step 4: remux_to_mov(src, out) and the except clauses
VideoRemux ==
    /\ pc = "remux"
    /\ request.endpoint = "video"
    /\ \E outcome \in Outcomes, left \in BOOLEAN :
        /\ outcome = "ok" => src \in DOMAIN fs
        /\ calls' = Append(calls, Call("ffmpeg", remux_cmd(src, out), out))
        /\ steps' = Append(steps, Step("remux", outcome = "ok"))
        /\ CASE outcome = "ok" ->
                /\ fs' = Written(fs, out, Remuxed(fs[src]))
                /\ pending' = Nothing
             [] outcome = "nonzero" ->
                /\ fs' = Broken(fs, out, left, "video", <<"mov">>)
                /\ \E n \in StderrLens :
                      pending' = Returning(ErrorWith(500, "FFmpeg remux failed",
                                                     LastChars(LastChars(n, 1000), 300)))
             [] outcome = "timeout" ->
                /\ fs' = Broken(fs, out, left, "video", <<"mov">>)
                /\ pending' = Returning(Error(500, "FFmpeg timeout"))
        /\ pc' = "remux_finally"
    /\ UNCHANGED <<other, request, uid, args, photo_ext, video_ext, src_ext, tmp_files,
                   current_photo, threads, response, now, clock0>>

\* step 4 with a finally clause that releases the output instead of the source
VideoRemuxFinally_out ==
    /\ pc = "remux_finally"
    /\ request.endpoint = "video"
    /\ threads' = schedule_delete(threads, <<out>>, 0)
    /\ IF pending.kind = "none"
       THEN /\ pc' = "inject"
            /\ UNCHANGED <<response, clock0>>
       ELSE Answer(pending.response)
    /\ pending' = Nothing
    /\ UNCHANGED <<other, request, uid, args, photo_ext, video_ext, src_ext, tmp_files,
                   current_photo, fs, calls, steps, now>>

\* step 4: finally
VideoRemuxFinally ==
    /\ pc = "remux_finally"
    /\ request.endpoint = "video"
    /\ threads' = schedule_delete(threads, <<src>>, 0)
    /\ IF pending.kind = "none"
       THEN /\ pc' = "inject"
            /\ UNCHANGED <<response, clock0>>
       ELSE Answer(pending.response)
    /\ pending' = Nothing
    /\ UNCHANGED <<other, request, uid, args, photo_ext, video_ext, src_ext, tmp_files,
                   current_photo, fs, calls, steps, now>>

\* step 5 with an injection that is tried again after a failure
VideoInject_retry ==
    /\ pc = "inject"
    /\ request.endpoint = "video"
    /\ \E outcome \in Outcomes :
        LET cmd == inject_metadata_cmd(out, args.make, args.model, args.date)
        IN  /\ outcome = "ok" => out \in DOMAIN fs
            /\ calls' = Append(calls, Injection( cmd, out))
            /\ steps' = Append(steps, Step("inject_video", outcome = "ok"))
            /\ IF outcome = "ok"
               THEN /\ fs' = Written(fs, out, Injected(fs[out], cmd))
                    /\ pc' = "respond"
               ELSE /\ fs' = fs
                    /\ pc' = "inject"
            /\ UNCHANGED <<threads, response, clock0>>
    /\ UNCHANGED <<other, request, uid, args, photo_ext, video_ext, src_ext, tmp_files,
                   current_photo, pending, now>>

\* step 5: inject_metadata(out, make, model, date)
VideoInject ==
    /\ pc = "inject"
    /\ request.endpoint = "video"
    /\ \E outcome \in Outcomes :
        LET cmd == inject_metadata_cmd(out, args.make, args.model, args.date)
        IN  /\ outcome = "ok" => out \in DOMAIN fs
            /\ calls' = Append(calls, Injection( cmd, out))
            /\ steps' = Append(steps, Step("inject_video", outcome = "ok"))
            /\ IF outcome = "ok"
               THEN /\ fs' = Written(fs, out, Injected(fs[out], cmd))
                    /\ pc' = "respond"
                    /\ UNCHANGED <<threads, response, clock0>>
               ELSE /\ threads' = schedule_delete(threads, <<out>>, 0)
                    /\ IF outcome = "timeout"
                       THEN Answer(Error(500, "ExifTool timeout"))
                       ELSE \E n \in StderrLens :
                               Answer(ErrorWith(500, "ExifTool failed", LastChars(n, 200)))
                    /\ fs' = fs
    /\ UNCHANGED <<other, request, uid, args, photo_ext, video_ext, src_ext, tmp_files,
                   current_photo, pending, now>>

\* step 6: process_video._cleanup, run by after_this_request
video_cleanup(ths) == schedule_delete(ths, <<out>>, CLEANUP_DELAY_SEC)

\* steps 6 and 7: send_file(out), then _cleanup
VideoRespond ==
    /\ pc = "respond"
    /\ request.endpoint = "video"
    /\ steps' = Append(steps, Step("deliver", out \in DOMAIN fs))
    /\ threads' = video_cleanup(threads)
    /\ Answer(IF out \in DOMAIN fs THEN Attachment(out) ELSE Unhandled)
    /\ UNCHANGED <<other, request, uid, args, photo_ext, video_ext, src_ext, tmp_files,
                   current_photo, pending, fs, calls, now>>

----------------------------------------------------------------------------
(* schedule_delete._worker, and time                                       *)

TickSec == 100

\* thread i has slept its delay: os.remove of its next path inside the try
\* statement of the loop; an error no clause catches ends the thread
Worker(i) ==
    /\ threads[i].wake <= now
    /\ threads[i].next <= Len(threads[i].paths)
    /\ ~ threads[i].raised
    /\ LET r == os_remove(fs, threads[i].paths[threads[i].next])
       IN /\ fs' = r.files
          /\ threads' = IF r.error = "none" \/ worker_except(r.error)
                        THEN [threads EXCEPT ![i].next = @ + 1]
                        ELSE [threads EXCEPT ![i].raised = TRUE]
    /\ UNCHANGED <<other, request, pc, uid, args, photo_ext, video_ext, src_ext, tmp_files,
                   current_photo, pending, calls, steps, response, now, clock0>>

\* time passes while a thread sleeps
Tick ==
    /\ \E i \in DOMAIN threads : threads[i].wake > now
    /\ now' = now + TickSec
    /\ UNCHANGED <<other, request, pc, uid, args, photo_ext, video_ext, src_ext, tmp_files,
                   current_photo, pending, fs, threads, calls, steps, response, clock0>>

Handler ==
    \/ LiveValidate
    \/ LivePaths
    \/ LiveSave
    \/ LiveConvert
    \/ LiveCopy
    \/ LivePhotoExcept
    \/ LivePhotoFinally
    \/ LiveRemux
    \/ LiveRemuxExcept
    \/ LiveRemuxFinally
    \/ LiveInjectImage
    \/ LiveInjectVideo
    \/ LivePackage
    \/ LiveRespond
    \/ VideoValidate
    \/ VideoPaths
    \/ VideoSave
    \/ VideoRemux
    \/ VideoRemuxFinally
    \/ VideoInject
    \/ VideoRespond

Workers == \E i \in DOMAIN threads : Worker(i)

Next == Handler \/ Workers \/ Tick

Spec == Init /\ [][Next]_vars

\* the requests with every file and every required field present
CompleteRequests ==
    { r \in Requests :
        /\ r.endpoint = "live" =>
              /\ DOMAIN r.files = {"photo", "video"}
              /\ {"make", "model", "date", "asset_id"} \subseteq DOMAIN r.form
        /\ r.endpoint = "video" =>
              /\ DOMAIN r.files = {"file"}
              /\ DOMAIN r.form = {"make", "model", "date"} }

FairInit ==
    /\ request \in CompleteRequests
    /\ pc = "received"
    /\ uid = ""
    /\ args = NoArgs
    /\ photo_ext = <<>>
    /\ video_ext = <<>>
    /\ src_ext = <<>>
    /\ tmp_files = <<>>
    /\ current_photo = <<>>
    /\ pending = Nothing
    /\ fs = [p \in {} |-> Partial("", <<>>)]
    /\ threads = <<>>
    /\ calls = <<>>
    /\ steps = <<>>
    /\ response = NoResponse
    /\ now = 0
    /\ clock0 = 0
    /\ other = NoHandler

----------------------------------------------------------------------------
(* two requests in flight: the handlers share UPLOAD_DIR, the deletion     *)
(* threads and the clock, and nothing else                                 *)

\* the locals of the running handler
Locals ==
    [request |-> request, pc |-> pc, uid |-> uid, args |-> args,
     photo_ext |-> photo_ext, video_ext |-> video_ext, src_ext |-> src_ext,
     tmp_files |-> tmp_files, current_photo |-> current_photo, pending |-> pending,
     steps |-> steps, response |-> response, clock0 |-> clock0,
     switches |-> other.switches + 1]

\* how often the scheduler takes the processor from a handler that can go on
MaxSwitches == 1

\* no deletion thread has a path left to remove now
Drained ==
    \A i \in DOMAIN threads :
        threads[i].wake > now \/ threads[i].next > Len(threads[i].paths)

\* the scheduler runs the other handler; the pairing handlers, whose deletion
\* threads are many, are exchanged only while no deletion is runnable
Switch ==
    /\ other.pc \notin {"none", "done"}
    /\ pc = "done" \/ other.switches < MaxSwitches
    /\ request.endpoint = "live" => Drained
    /\ other' = Locals
    /\ request' = other.request
    /\ pc' = other.pc
    /\ uid' = other.uid
    /\ args' = other.args
    /\ photo_ext' = other.photo_ext
    /\ video_ext' = other.video_ext
    /\ src_ext' = other.src_ext
    /\ tmp_files' = other.tmp_files
    /\ current_photo' = other.current_photo
    /\ pending' = other.pending
    /\ steps' = other.steps
    /\ response' = other.response
    /\ clock0' = other.clock0
    /\ UNCHANGED <<fs, threads, calls, now>>

TwinForm ==
    [make |-> <<" ", "Apple">>, model |-> <<"iPhone", " ", "17">>,
     date |-> <<"2026:02:22", " ", "12:00:00">>, asset_id |-> <<" ", "ab12", "\t">>]

TwinLive(photo, form) ==
    [endpoint |-> "live",
     files |-> [photo |-> photo, video |-> <<"v", ".", "mp4">>],
     form |-> form]

TwinVideo(model) ==
    [endpoint |-> "video",
     files |-> [file |-> <<"v", ".", "MOV">>],
     form |-> [make |-> <<" ", "Apple">>, model |-> model,
               date |-> <<"2026:02:22", " ", "12:00:00">>]]

\* two requests of one back end: its UPLOAD_DIR is its own
TwinPairs ==
    { << TwinLive(<<"a", ".", "png">>, TwinForm), TwinLive(<<"IMG", ".", "JPG">>, TwinForm) >>,
      << TwinVideo(<<"iPhone", " ", "17">>), TwinVideo(<<"iPhone", " ", "17">>) >>,
      << TwinVideo(<<"iPhone", " ", "17">>), TwinVideo(<<"Pixel">>) >> }

TwinInit ==
    /\ \E pair \in TwinPairs :
          /\ request = pair[1]
          /\ other = Received(pair[2])
    /\ pc = "received"
    /\ uid = ""
    /\ args = NoArgs
    /\ photo_ext = <<>>
    /\ video_ext = <<>>
    /\ src_ext = <<>>
    /\ tmp_files = <<>>
    /\ current_photo = <<>>
    /\ pending = Nothing
    /\ fs = [p \in {} |-> Partial("", <<>>)]
    /\ threads = <<>>
    /\ calls = <<>>
    /\ steps = <<>>
    /\ response = NoResponse
    /\ now = 0
    /\ clock0 = 0

TwinNext == Handler \/ Workers \/ Switch

TwinSpec == TwinInit /\ [][TwinNext]_vars

----------------------------------------------------------------------------
(* the Tag Plans alone: process_live up to its paths, then the two command *)
(* lines that inject_image_metadata and inject_video_metadata build        *)

OptionalValues ==
    [aperture |-> { <<"2.8">>, <<" ", "2.8", "\t">> },
     focal    |-> { <<"50">>, <<"50", " ">> },
     focal35  |-> { <<"75">>, <<"\t", "75">> },
     iso      |-> { <<"400">>, <<" ">> },
     lens     |-> { <<"tele">>, <<" ", "tele", " ", "lens", " ">> },
     width    |-> { <<"1920">>, <<" ", "1920">>, <<>> },
     height   |-> { <<"1080">>, <<"1080", " ">> }]

OptionalNames == {"aperture", "focal", "focal35", "iso", "lens", "width", "height"}

PlanRequests ==
    { [endpoint |-> "live",
       files |-> [photo |-> <<"IMG", ".", "JPG">>, video |-> <<"v", ".", "mp4">>],
       form |-> [make |-> <<"Apple">>, model |-> m,
                 date |-> <<"2026:02:22", " ", "12:00:00">>,
                 asset_id |-> <<" ", "ab12", "\t">>] @@ fo] :
        m \in { <<"iPhone", " ", "17">>, <<" ", "Pixel", "\t">> },
        fo \in Forms(OptionalNames, OptionalValues) }

PlanInit ==
    /\ request \in PlanRequests
    /\ pc = "received"
    /\ uid = ""
    /\ args = NoArgs
    /\ photo_ext = <<>>
    /\ video_ext = <<>>
    /\ src_ext = <<>>
    /\ tmp_files = <<>>
    /\ current_photo = <<>>
    /\ pending = Nothing
    /\ fs = [p \in {} |-> Partial("", <<>>)]
    /\ threads = <<>>
    /\ calls = <<>>
    /\ steps = <<>>
    /\ response = NoResponse
    /\ now = 0
    /\ clock0 = 0
    /\ other = NoHandler

\* inject_image_metadata: cmd, from the locals of process_live
PlanImage ==
    /\ pc = "save"
    /\ calls = <<>>
    /\ calls' = << Injection(
                        inject_image_metadata_cmd(out_photo, args.make, args.model,
                            args.date, args.asset_id, args.aperture, args.focal,
                            args.focal35, args.iso, args.lens, args.width, args.height),
                        out_photo) >>
    /\ UNCHANGED <<other, request, pc, uid, args, photo_ext, video_ext, src_ext, tmp_files,
                   current_photo, pending, fs, threads, steps, response, now, clock0>>

\* inject_video_metadata: cmd, from the locals of process_live
PlanVideo ==
    /\ pc = "save"
    /\ Len(calls) = 1
    /\ calls' = Append(calls,
                       Injection(
                            inject_video_metadata_cmd(out_video, args.make, args.model,
                                args.date, args.asset_id),
                            out_video))
    /\ UNCHANGED <<other, request, pc, uid, args, photo_ext, video_ext, src_ext, tmp_files,
                   current_photo, pending, fs, threads, steps, response, now, clock0>>

\* app.py inject_metadata: cmd, for the make, model and date of the same form
PlanVideoOnly ==
    /\ pc = "save"
    /\ Len(calls) = 2
    /\ calls' = Append(calls,
                       Injection(inject_metadata_cmd(out, args.make, args.model, args.date),
                                 out))
    /\ UNCHANGED <<other, request, pc, uid, args, photo_ext, video_ext, src_ext, tmp_files,
                   current_photo, pending, fs, threads, steps, response, now, clock0>>

PlanNext == LiveValidate \/ LivePaths \/ PlanImage \/ PlanVideo \/ PlanVideoOnly

PlanSpec == PlanInit /\ [][PlanNext]_vars

\* every deletion thread that has been started runs, and time passes
FairSpec ==
    FairInit /\ [][Next]_vars /\ WF_vars(Workers) /\ WF_vars(Tick)


----------------------------------------------------------------------------
(* properties                                                              *)

Live == request.endpoint = "live"

Video == request.endpoint = "video"

Done == pc = "done"

\* step name has been started / has succeeded
Started(name) == \E k \in DOMAIN steps : steps[k].step = name

Succeeded(name) == \E k \in DOMAIN steps : steps[k].step = name /\ steps[k].ok

\* some step after validation has failed
FailedAfterValidation ==
    \E k \in DOMAIN steps : steps[k].step # "validate" /\ ~ steps[k].ok

\* a thread that deletes p without delay has been started
ScheduledNow(p) ==
    \E i \in DOMAIN threads :
        /\ threads[i].delay = 0
        /\ \E k \in DOMAIN threads[i].paths : threads[i].paths[k] = p

Blank(text) == \A i \in DOMAIN text : text[i] \in Whitespace

\* v is raw[a..b], and raw[a..b] is raw without the whitespace around it
TrimAt(v, raw, a, b) ==
    /\ \A k \in 1..(a - 1) : raw[k] \in Whitespace
    /\ \A k \in (b + 1)..Len(raw) : raw[k] \in Whitespace
    /\ a <= b => raw[a] \notin Whitespace /\ raw[b] \notin Whitespace
    /\ Len(v) = (IF a <= b THEN b - a + 1 ELSE 0)
    /\ \A k \in DOMAIN v : v[k] = raw[a + k - 1]

\* v is raw without its leading and trailing whitespace
TrimOf(v, raw) ==
    \E a \in 1..(Len(raw) + 1), b \in 0..Len(raw) : TrimAt(v, raw, a, b)

\* v is raw without its leading and trailing whitespace, in upper case
TrimUpperOf(v, raw) ==
    \E a \in 1..(Len(raw) + 1), b \in 0..Len(raw) :
        TrimAt([k \in 1..(IF a <= b THEN b - a + 1 ELSE 0) |-> raw[a + k - 1]], raw, a, b)
        /\ Len(v) = (IF a <= b THEN b - a + 1 ELSE 0)
        /\ \A k \in DOMAIN v : v[k] = UpperAtom(raw[a + k - 1])

\* what the last "-name=..." of a plan assigns
Assigns(plan, name, value) ==
    \E k \in DOMAIN plan :
        /\ plan[k].name = name
        /\ plan[k].value = value
        /\ \A j \in (k + 1)..Len(plan) : plan[j].name # name

ImageIdTags ==
    {"Apple:ContentIdentifier", "XMP-apple-fi:ContentIdentifier", "XMP:ContentIdentifier"}

VideoIdTags ==
    {"ContentIdentifier", "Keys:ContentIdentifier", "com.apple.quicktime.content.identifier"}

IdTags(target) == IF target = out_photo THEN ImageIdTags ELSE VideoIdTags

\* C1: in a pairing request, every exiftool invocation assigns to each of its
\* three ContentIdentifier locations (image: Apple, XMP-apple-fi, XMP; video:
\* top level, Keys, com.apple.quicktime.content.identifier) the asset_id of the
\* form, trimmed and put in upper case, and an injected output still on disk
\* holds that value in each location: image and video carry one value.
C1_OneIdentifier ==
    Live =>
        /\ \A i \in DOMAIN calls :
            calls[i].tool = "exiftool" =>
                \A t \in IdTags(calls[i].target) :
                    /\ \E k \in DOMAIN calls[i].cmd : calls[i].cmd[k].name = t
                    /\ \A k \in DOMAIN calls[i].cmd :
                          calls[i].cmd[k].name = t =>
                              TrimUpperOf(calls[i].cmd[k].value, request.form["asset_id"])
        /\ Succeeded("inject_image") /\ out_photo \in DOMAIN fs =>
              \A t \in ImageIdTags :
                  /\ t \in DOMAIN fs[out_photo].tags
                  /\ TrimUpperOf(fs[out_photo].tags[t], request.form["asset_id"])
        /\ Succeeded("inject_video") /\ out_video \in DOMAIN fs =>
              \A t \in VideoIdTags :
                  /\ t \in DOMAIN fs[out_video].tags
                  /\ TrimUpperOf(fs[out_video].tags[t], request.form["asset_id"])

\* C1 witness: both injections of a request with a padded lower-case asset_id
\* have run and both outputs are on disk
C1_Witness ==
    /\ Live
    /\ Succeeded("inject_image")
    /\ Succeeded("inject_video")
    /\ request.form["asset_id"] = <<" ", "ab12", "\t">>
    /\ out_photo \in DOMAIN fs
    /\ out_video \in DOMAIN fs
    /\ fs[out_video].tags["Keys:ContentIdentifier"] = <<"AB12">>
    /\ fs[out_photo].tags["Apple:ContentIdentifier"] = <<"AB12">>


\* C2: when a step of the pairing pipeline after validation has failed, the
\* request ends with an error response and every scratch file of the request
\* that exists has been scheduled for deletion without delay.
C2_FailureCleansUp ==
    Live /\ Done /\ FailedAfterValidation =>
        /\ response.status = 500
        /\ \A p \in DOMAIN fs : ScheduledNow(p)

\* C3: when the save, the remux or the injection of the video-only pipeline
\* has failed, the request ends with status 500 and every scratch file created
\* so far (src, out, also partly written) has been scheduled for deletion
\* without delay.
C3_VideoFailureCleansUp ==
    Video /\ Done /\ FailedAfterValidation =>
        /\ response.status = 500
        /\ \A p \in DOMAIN fs : ScheduledNow(p)

\* the request is one that validation has to refuse
Missing(form, key) == key \notin DOMAIN form \/ Blank(form[key])

\* name ends with a dot and one of the extensions, in any case
HasExtension(name, extensions) ==
    /\ Len(name) >= 2
    /\ name[Len(name) - 1] = "."
    /\ LowerAtom(name[Len(name)]) \in extensions

Invalid ==
    IF Live
    THEN \/ "photo" \notin DOMAIN request.files
         \/ "video" \notin DOMAIN request.files
         \/ Len(request.files["photo"]) = 0
         \/ Len(request.files["video"]) = 0
         \/ ~ HasExtension(request.files["photo"],
                           {"jpg", "jpeg", "png", "heic", "heif", "webp"})
         \/ ~ HasExtension(request.files["video"], {"mp4", "mov"})
         \/ \E k \in {"make", "model", "date", "asset_id"} : Missing(request.form, k)
    ELSE \/ "file" \notin DOMAIN request.files
         \/ Len(request.files["file"]) = 0
         \/ ~ HasExtension(request.files["file"], {"mp4", "mov"})
         \/ \E k \in {"make", "model", "date"} : Missing(request.form, k)

\* C5: a request without a required file field, with an empty file name or a
\* disallowed extension, or with a required text field empty after trimming is
\* answered 400, and nothing has been written to a scratch path, no deletion
\* has been scheduled and no external tool has been invoked.
C5_InvalidRefused ==
    Invalid =>
        /\ pc \in {"received", "done"}
        /\ Done => response.status = 400
        /\ DOMAIN fs = {}
        /\ threads = <<>>
        /\ calls = <<>>

\* C5 witness: a pairing request whose only flaw is a blank asset_id has been
\* answered 400
C5_Witness ==
    /\ Live
    /\ Done
    /\ response.status = 400
    /\ request.files = [photo |-> <<"IMG", ".", "JPG">>, video |-> <<"v", ".", "mp4">>]
    /\ \A k \in {"make", "model", "date"} : ~ Missing(request.form, k)
    /\ "asset_id" \in DOMAIN request.form
    /\ Blank(request.form["asset_id"])


\* the request has been answered with its deliverable
Delivered == Done /\ response.status = 200

\* C4: after a successful request of either pipeline the deliverable
\* (live_<uid>.zip, out_<uid>.mov) exists when the response is returned and as
\* long as fewer than CLEANUP_DELAY_SEC seconds have passed since, and it is
\* deleted in the end.
C4_Retention ==
    /\ [](Delivered /\ now - clock0 < CLEANUP_DELAY_SEC => response.file \in DOMAIN fs)
    /\ [](Delivered => response.file = (IF Live THEN out_zip ELSE out))
    /\ (Delivered ~> (Delivered /\ response.file \notin DOMAIN fs))

\* C4 witness: the archive of a delivered pairing request is gone, and the
\* retention window has passed
C4_Witness ==
    /\ Live
    /\ Delivered
    /\ out_zip \notin DOMAIN fs
    /\ now - clock0 >= CLEANUP_DELAY_SEC

\* the photo of the request is not a JPEG by its name
NeedsConversion ==
    /\ "photo" \in DOMAIN request.files
    /\ request.files["photo"] # <<>>
    /\ LowerAtom(request.files["photo"][Len(request.files["photo"])]) \notin {"jpg", "jpeg"}

\* the steps of the pairing pipeline, in the order of the state machine
LiveOrder ==
    IF NeedsConversion
    THEN <<"validate", "save", "convert", "copy", "remux", "inject_image",
           "inject_video", "package", "deliver">>
    ELSE <<"validate", "save", "copy", "remux", "inject_image", "inject_video",
           "package", "deliver">>

\* C6: the steps of a pairing request are started in the order validate, save,
\* (conversion when needed, then the copy to the output image), remux, image
\* injection, video injection, packaging, delivery, each only after all the
\* earlier ones have succeeded, none twice, and none after a failed one.
C6_LinearOrder ==
    /\ [](Live =>
            /\ Len(steps) <= Len(LiveOrder)
            /\ \A k \in DOMAIN steps :
                  /\ steps[k].step = LiveOrder[k]
                  /\ k < Len(steps) => steps[k].ok)
    /\ [][Live => \/ steps' = steps
                  \/ /\ Len(steps') = Len(steps) + 1
                     /\ SubSeq(steps', 1, Len(steps)) = steps
                     /\ \A k \in DOMAIN steps : steps[k].ok]_vars

\* C6 witness: a pairing request with a PNG photo has gone through all nine
\* steps
C6_Witness ==
    /\ Live
    /\ Delivered
    /\ Len(steps) = 9
    /\ steps[3].step = "convert"
    /\ steps[9] = Step("deliver", TRUE)

\* tags is what a file holds after the arguments of plan, applied in order
HoldsPlan(tags, plan) ==
    \A k \in DOMAIN plan :
        (\A j \in (k + 1)..Len(plan) : plan[j].name # plan[k].name) =>
            IF plan[k].value = <<>>
            THEN plan[k].name \notin DOMAIN tags
            ELSE plan[k].name \in DOMAIN tags /\ tags[plan[k].name] = plan[k].value

\* the exiftool invocation on target succeeded and data is what it left
InjectedBy(data, target, step) ==
    /\ Succeeded(step)
    /\ data.whole
    /\ \E i \in DOMAIN calls :
          /\ calls[i].tool = "exiftool"
          /\ calls[i].target = target
          /\ HoldsPlan(data.tags, TagPlan(calls[i].cmd))

\* C7: the archive of a successful pairing request has exactly the two
\* members IMG_LIVE.JPG and IMG_LIVE.MOV, stored, holding the output image and
\* the output video as the two successful injections left them; live_<uid>.zip
\* is not written before both injections have succeeded.
C7_Archive ==
    Live =>
        /\ out_zip \in DOMAIN fs => Succeeded("inject_image") /\ Succeeded("inject_video")
        /\ response.status = 200 => response.file = out_zip
        /\ (pc = "respond" \/ Delivered) /\ out_zip \in DOMAIN fs =>
              LET zf == fs[out_zip].entries
              IN  /\ fs[out_zip].whole
                  /\ Len(zf) = 2
                  /\ zf[1].arcname = "IMG_LIVE.JPG"
                  /\ zf[2].arcname = "IMG_LIVE.MOV"
                  /\ \A k \in 1..2 : zf[k].compress_type = "ZIP_STORED"
                  /\ zf[1].data.payload = "photo"
                  /\ zf[2].data.payload = "video"
                  /\ InjectedBy(zf[1].data, out_photo, "inject_image")
                  /\ InjectedBy(zf[2].data, out_video, "inject_video")
                  /\ pc = "respond" => zf[1].data = fs[out_photo] /\ zf[2].data = fs[out_video]

\* C7 witness: a pairing request has been answered with its archive, which is
\* on disk
C7_Witness ==
    /\ Live
    /\ Delivered
    /\ out_zip \in DOMAIN fs
    /\ Len(fs[out_zip].entries) = 2
    /\ fs[out_zip].entries[2].data.tags["Keys:StillImageTime"] = <<"0">>


HandlerTags ==
    {"QuickTime:HandlerName", "QuickTime:VideoHandlerName", "QuickTime:AudioHandlerName"}

\* the values FFmpeg gives the handler names of the files it writes
Fingerprints == { <<"VideoHandler">>, <<"SoundHandler">> }

HoldsFingerprint(tags) ==
    \A h \in HandlerTags : h \in DOMAIN tags /\ tags[h] \in Fingerprints

CanonicalHandlers(tags) ==
    /\ \A h \in HandlerTags :
          h \in DOMAIN tags /\ tags[h] # <<>> /\ tags[h] \notin Fingerprints
    /\ tags["QuickTime:HandlerName"] = <<"Core Media Video">>
    /\ tags["QuickTime:VideoHandlerName"] = <<"Core Media Video">>
    /\ tags["QuickTime:AudioHandlerName"] = <<"Core Media Audio">>

\* the output video of the request
OutputVideo == IF Live THEN out_video ELSE out

\* C8: the remuxed file that exiftool is about to write holds FFmpeg's handler
\* names; once the injection has succeeded, HandlerName and VideoHandlerName
\* are "Core Media Video" and AudioHandlerName is "Core Media Audio", in the
\* output video and in the video of the archive: no handler name is blank or
\* FFmpeg's.
C8_NoFingerprint ==
    /\ pc \in {"inject_video", "inject"} /\ OutputVideo \in DOMAIN fs =>
          HoldsFingerprint(fs[OutputVideo].tags)
    /\ Succeeded("inject_video") /\ OutputVideo \in DOMAIN fs =>
          CanonicalHandlers(fs[OutputVideo].tags)
    /\ Live /\ Delivered /\ out_zip \in DOMAIN fs =>
          CanonicalHandlers(fs[out_zip].entries[2].data.tags)
    /\ Video /\ Delivered /\ out \in DOMAIN fs => CanonicalHandlers(fs[out].tags)

\* C8 witness: a video-only request has been answered with a video whose
\* handler names are the canonical ones
C8_Witness ==
    /\ Video
    /\ Delivered
    /\ out \in DOMAIN fs
    /\ fs[out].tags["QuickTime:AudioHandlerName"] = <<"Core Media Audio">>
    /\ "QuickTime:Encoder" \notin DOMAIN fs[out].tags

\* the tag of the image Tag Plan that carries an optional parameter
ShotTag(k) ==
    CASE k = "aperture" -> "FNumber"
      [] k = "focal" -> "FocalLength"
      [] k = "focal35" -> "FocalLengthIn35mmFormat"
      [] k = "iso" -> "ISO"
      [] k = "lens" -> "LensModel"
      [] k = "width" -> "ExifImageWidth"
      [] k = "height" -> "ExifImageHeight"

\* v is the documented default of parameter k
DocumentedDefault(k, v) ==
    CASE k = "aperture" -> v = <<"1.78">>
      [] k = "focal" -> v = <<"24">>
      [] k = "focal35" -> v = <<"24">>
      [] k = "iso" -> v = <<"100">>
      [] k = "width" -> v = <<"4032">>
      [] k = "height" -> v = <<"3024">>
      [] k = "lens" ->
            /\ Len(v) >= 2
            /\ SubSeq(v, Len(v) - 1, Len(v)) = <<" ", "<rear camera>">>
            /\ TrimOf(SubSeq(v, 1, Len(v) - 2), request.form["model"])

\* C9: in the image Tag Plan each optional parameter that the form lacks has
\* its documented default (1.78, 24, 24, 100, 4032, 3024, the lens named after
\* the trimmed model), whatever other parameters the form has, and each one
\* that the form has carries the supplied value, trimmed.
C9_ShotDefaults ==
    \A i \in DOMAIN calls :
        calls[i].tool = "exiftool" /\ calls[i].target = out_photo =>
            \A k \in {"aperture", "focal", "focal35", "iso", "lens", "width", "height"} :
                \E j \in DOMAIN calls[i].cmd :
                    /\ Assigns(TagPlan(calls[i].cmd), ShotTag(k), calls[i].cmd[j].value)
                    /\ IF k \in DOMAIN request.form
                       THEN TrimOf(calls[i].cmd[j].value, request.form[k])
                       ELSE DocumentedDefault(k, calls[i].cmd[j].value)

\* C9 witness: the image Tag Plan of a form with a padded aperture and a width
\* and nothing else optional has been built
C9_Witness ==
    /\ calls # <<>>
    /\ calls[1].target = out_photo
    /\ DOMAIN request.form \cap {"aperture", "focal", "focal35", "iso", "lens", "width", "height"}
          = {"aperture", "width"}
    /\ request.form["aperture"] = <<" ", "2.8", "\t">>
    /\ Assigns(TagPlan(calls[1].cmd), "FNumber", <<"2.8">>)
    /\ Assigns(TagPlan(calls[1].cmd), "ExifImageHeight", <<"3024">>)
    /\ Assigns(TagPlan(calls[1].cmd), "LensModel", <<"Pixel", " ", "<rear camera>">>)

\* C10: the conversion runs before the injection exactly when the photo is
\* not a JPEG, and once it has been started, conv_photo_<uid>.jpg, if it is
\* left on disk when the request ends, has been scheduled for deletion without
\* delay, whatever the outcome.
C10_ConvertedDeleted ==
    Live =>
        /\ Started("convert") => NeedsConversion
        /\ Started("inject_image") /\ NeedsConversion => Succeeded("convert")
        /\ Done /\ Started("convert") /\ converted \in DOMAIN fs => ScheduledNow(converted)


\* the exiftool calls so far against the output photos (prefix "out_photo_")
\* or the output videos (prefix "out_video_") of the pairing requests
PlanCalls(prefix) ==
    { i \in DOMAIN calls : calls[i].tool = "exiftool" /\ calls[i].target[1] = prefix }

\* C11: when the two pairing requests in flight have the same form fields,
\* the image Tag Plans of their two runs are equal entry for entry, and so
\* are the video Tag Plans, though the runs have different uids and scratch
\* paths and share the scratch directory; no tag value holds a uid.
C11_SamePlans ==
    other.pc # "none" /\ request.endpoint = "live" /\ other.request.endpoint = "live" =>
        /\ request.form = other.request.form =>
              \A prefix \in {"out_photo_", "out_video_"} :
                  \A i, j \in PlanCalls(prefix) :
                      TagPlan(calls[i].cmd) = TagPlan(calls[j].cmd)
        /\ \A i \in DOMAIN calls : \A k \in DOMAIN calls[i].cmd :
              calls[i].cmd[k].kind = "tag" =>
                  \A n \in DOMAIN calls[i].cmd[k].value : calls[i].cmd[k].value[n] \notin UIDs

\* C11 witness: both requests, with equal forms and different uids, have had
\* their image and their video Tag Plans applied
C11_Witness ==
    /\ other.pc = "done"
    /\ pc = "done"
    /\ request.endpoint = "live"
    /\ request.form = other.request.form
    /\ uid # other.uid
    /\ \A prefix \in {"out_photo_", "out_video_"} :
          { calls[i].target[2] : i \in PlanCalls(prefix) } = {uid, other.uid}


\* C12: once a request has passed validation and its paths are derived, the
\* derivation has not failed, and the extension of each scratch source is
\* the lower-cased extension of the raw filename that validation accepted.
C12_ExtensionKept ==
    Succeeded("validate") /\ uid # "" =>
        /\ ~ (Done /\ Len(steps) = 1 /\ response.status = 500)
        /\ Live => /\ photo_ext = lower(rsplit(request.files["photo"])[2])
                   /\ video_ext = lower(rsplit(request.files["video"])[2])
        /\ Video => src_ext = lower(rsplit(request.files["file"])[2])


\* a deletion thread that is to remove p has been started
DeletionStarted(p) ==
    \E i \in DOMAIN threads : \E k \in DOMAIN threads[i].paths : threads[i].paths[k] = p

\* the scratch files that the step the handler is about to take reads or writes
StepFiles ==
    IF Live
    THEN CASE pc = "save" -> {src_photo, src_video}
           [] pc = "convert" -> IF photo_ext \in {<<"jpg">>, <<"jpeg">>}
                                THEN {}
                                ELSE {src_photo, converted}
           [] pc = "copy" -> {current_photo, out_photo}
           [] pc = "remux" -> {src_video, out_video}
           [] pc = "inject_image" -> {out_photo}
           [] pc = "inject_video" -> {out_video}
           [] pc = "package" -> {out_photo, out_video, out_zip}
           [] pc = "respond" -> {out_zip}
           [] OTHER -> {}
    ELSE CASE pc = "save" -> {src}
           [] pc = "remux" -> {src, out}
           [] pc = "inject" -> {out}
           [] pc = "respond" -> {out}
           [] OTHER -> {}

\* C13: whenever the handler takes a step, no file that the step reads or
\* writes (the files of its tool's command line, the files it creates or
\* overwrites, the sources of its copy, its archive and its response) is in
\* the list of a deletion thread started before the step.
C13_NoUseAfterRelease ==
    [][pc' # pc =>
        /\ \A p \in StepFiles : ~ DeletionStarted(p)
        /\ \A p \in DOMAIN fs' :
              (p \notin DOMAIN fs \/ fs'[p] # fs[p]) => p \in StepFiles
        /\ calls' # calls =>
              \A k \in DOMAIN calls'[Len(calls')].cmd :
                  calls'[Len(calls')].cmd[k].kind = "file" =>
                      calls'[Len(calls')].cmd[k].value \in StepFiles]_vars

\* C13 witness: the source photo was released after its conversion and its
\* deletion thread has run, and the copy of the converted image has been made
C13_Witness ==
    /\ Live
    /\ pc = "remux"
    /\ Succeeded("convert")
    /\ src_photo \notin DOMAIN fs
    /\ out_photo \in DOMAIN fs
    /\ DeletionStarted(converted)


\* the exiftool calls so far against an output video of either pipeline
VideoPlanCalls ==
    { i \in DOMAIN calls :
        calls[i].tool = "exiftool" /\ calls[i].target[1] \in {"out_video_", "out_"} }

\* C14: in every video Tag Plan handed to exiftool, each of HandlerName,
\* VideoHandlerName and AudioHandlerName has an entry that blanks it and, at
\* a higher position, an entry that sets it, and none of its blanking entries
\* is above one of its setting entries.
C14_BlankBeforeSet ==
    \A i \in VideoPlanCalls :
        LET plan == TagPlan(calls[i].cmd)
        IN  \A h \in HandlerTags :
                /\ \E b, t \in DOMAIN plan :
                      /\ b < t
                      /\ plan[b].name = h /\ plan[b].value = <<>>
                      /\ plan[t].name = h /\ plan[t].value # <<>>
                /\ \A b, t \in DOMAIN plan :
                      /\ plan[b].name = h /\ plan[b].value = <<>>
                      /\ plan[t].name = h /\ plan[t].value # <<>>
                      => b < t

\* C14 witness: the video-only pipeline has handed exiftool a plan that blanks
\* AudioHandlerName at position 3 and sets it at position 7
C14_Witness ==
    /\ Video
    /\ \E i \in VideoPlanCalls :
          /\ TagPlan(calls[i].cmd)[3] = Tag("QuickTime:AudioHandlerName", <<>>)
          /\ TagPlan(calls[i].cmd)[7] = Tag("QuickTime:AudioHandlerName", <<"Core Media Audio">>)


\* the command line is one invocation that carries a whole plan: the program,
\* its options, the "-NAME=VALUE" arguments, and one file, the last argument
OneInvocation(cmd) ==
    /\ Len(cmd) >= 3
    /\ cmd[1].kind = "prog"
    /\ cmd[Len(cmd)].kind = "file"
    /\ \A k \in 2..(Len(cmd) - 1) : cmd[k].kind \in {"opt", "tag"}
    /\ TagPlan(cmd) # <<>>

\* C15: in a request no tool is invoked twice against the same file (exiftool
\* once per output, the remux once), nothing follows a failed step, so no
\* failed or timed-out invocation is tried again, and an output that has been
\* injected holds the whole plan of the one exiftool invocation against it.
C15_NoRetry ==
    /\ \A i, j \in DOMAIN calls :
          calls[i].tool = calls[j].tool /\ calls[i].target = calls[j].target => i = j
    /\ \A i, j \in DOMAIN steps : steps[i].step = steps[j].step => i = j
    /\ \A k \in DOMAIN steps : ~ steps[k].ok => k = Len(steps)
    /\ \A i \in DOMAIN calls : calls[i].tool = "exiftool" => OneInvocation(calls[i].cmd)
    /\ \A p \in {OutputVideo} \cup (IF Live THEN {out_photo} ELSE {}) :
          /\ p \in DOMAIN fs
          /\ Succeeded(IF p = out_photo THEN "inject_image" ELSE "inject_video")
          => InjectedBy(fs[p], p, IF p = out_photo THEN "inject_image" ELSE "inject_video")

\* C15 witness: the injection into the output video has timed out or failed
\* after the image was injected, and the request has ended with one exiftool
\* call per output and one remux
C15_Witness ==
    /\ Live
    /\ Done
    /\ steps[Len(steps)] = Step("inject_video", FALSE)
    /\ Cardinality({ i \in DOMAIN calls : calls[i].tool = "exiftool" }) = 2
    /\ Cardinality({ i \in DOMAIN calls : calls[i].target = out_video }) = 2


\* the intermediate artifacts of the request
Intermediates ==
    IF Live
    THEN {src_photo, src_video, out_photo, out_video}
            \cup (IF NeedsConversion THEN {converted} ELSE {})
    ELSE {src}

\* the file the response delivers
Deliverable == IF Live THEN out_zip ELSE out

\* C16: when a request is delivered, each of its intermediate artifacts (the
\* two sources, the converted image if there is one, the two outputs; the
\* source of the video-only pipeline) has been scheduled for deletion without
\* delay and the deliverable has not, and every file still on disk is the
\* deliverable or one of these.
C16_OnlyDeliverableStays ==
    Delivered =>
        /\ \A p \in Intermediates : ScheduledNow(p)
        /\ ~ ScheduledNow(Deliverable)
        /\ \A p \in DOMAIN fs : p = Deliverable \/ (p \in Intermediates /\ ScheduledNow(p))

\* C16 witness: a pairing request with a converted photo has been delivered,
\* the deletion threads have run, and the archive alone is on disk
C16_Witness ==
    /\ Live
    /\ Delivered
    /\ NeedsConversion
    /\ ScheduledNow(converted)
    /\ DOMAIN fs = {out_zip}
    /\ now - clock0 < CLEANUP_DELAY_SEC


\* the names of the pairing pipeline's video Tag Plan, in order
VideoPlanNames ==
    << "QuickTime:HandlerName", "QuickTime:VideoHandlerName",
       "QuickTime:AudioHandlerName", "QuickTime:Encoder",
       "QuickTime:HandlerName", "QuickTime:VideoHandlerName",
       "QuickTime:AudioHandlerName",
       "QuickTime:Make", "QuickTime:Model", "Keys:Make", "Keys:Model",
       "UserData:Make", "UserData:Model",
       "com.apple.quicktime.make", "com.apple.quicktime.model",
       "QuickTime:CreationDate", "com.apple.quicktime.creationdate", "CreateDate",
       "DateTimeOriginal", "TrackCreateDate", "MediaCreateDate",
       "ContentIdentifier", "Keys:ContentIdentifier",
       "com.apple.quicktime.content.identifier",
       "Keys:StillImageTime" >>

\* C17: every video Tag Plan of the pairing pipeline has these 25 entries in
\* this order: four blanking entries, the three canonical handler names, Make
\* and Model in four namespaces with the trimmed make and model of the form,
\* six date fields with the trimmed date, three identifier locations with the
\* trimmed upper-cased asset_id, and last Keys:StillImageTime = 0.
C17_VideoPlanLayout ==
    Live =>
        \A i \in PlanCalls("out_video_") :
            LET plan == TagPlan(calls[i].cmd)
            IN  /\ Len(plan) = 25
                /\ \A k \in 1..25 : plan[k].name = VideoPlanNames[k]
                /\ \A k \in 1..4 : plan[k].value = <<>>
                /\ plan[5].value = <<"Core Media Video">>
                /\ plan[6].value = <<"Core Media Video">>
                /\ plan[7].value = <<"Core Media Audio">>
                /\ \A k \in {8, 10, 12, 14} : TrimOf(plan[k].value, request.form["make"])
                /\ \A k \in {9, 11, 13, 15} : TrimOf(plan[k].value, request.form["model"])
                /\ \A k \in 16..21 : TrimOf(plan[k].value, request.form["date"])
                /\ \A k \in 22..24 : TrimUpperOf(plan[k].value, request.form["asset_id"])
                /\ plan[25].value = <<"0">>

\* C17 witness: the video Tag Plan of a pairing request with optional
\* parameters has been handed to exiftool, the anchor as its last entry
C17_Witness ==
    /\ Live
    /\ "lens" \in DOMAIN request.form
    /\ \E i \in PlanCalls("out_video_") :
          /\ TagPlan(calls[i].cmd)[25] = Tag("Keys:StillImageTime", <<"0">>)
          /\ TagPlan(calls[i].cmd)[8] = Tag("QuickTime:Make", <<"Apple">>)


\* the step that failed was a remux or an injection
ToolFailure ==
    /\ Done
    /\ steps # <<>>
    /\ ~ steps[Len(steps)].ok
    /\ steps[Len(steps)].step \in {"remux", "inject_image", "inject_video"}

\* C18: when a remux or an injection has failed, by a non-zero exit or by a
\* timeout, the message of the response carries at most 300 characters of
\* diagnostics after its fixed text.
C18_BoundedDiagnostics ==
    ToolFailure => response.status = 500 /\ response.diag <= 300


\* C19: the tag count an injector reports for an invocation is the number of
\* "-NAME=VALUE" entries of the plan it applies; the program, its option
\* flags and the target file are not counted.
C19_TagCount ==
    \A i \in DOMAIN calls :
        calls[i].tool = "exiftool" => calls[i].reported = Len(TagPlan(calls[i].cmd))


\* every scratch path a request with uid u can have
ScratchPaths(u) ==
    { SrcPhoto(u, e) : e \in ALLOWED_IMAGE_EXT }
        \cup { SrcVideo(u, e) : e \in ALLOWED_VIDEO_EXT }
        \cup { Src(u, e) : e \in ALLOWED_EXTENSIONS }
        \cup { OutPhoto(u), OutVideo(u), OutZip(u), ConvPhoto(u), Out(u) }

\* the step is one of the running handler: not the scheduler's, not a thread's
HandlerStep == other' = other /\ pc' # pc

\* C20: when a handler draws its uid, the scratch paths of that uid are
\* disjoint from those of every other uid; a step of a handler creates or
\* overwrites files of its own uid only, removes none, and starts deletion
\* threads for paths of its own uid only; any other step changes no file and
\* removes only the path a started deletion thread has reached in its list.
\* So no request touches a file of the other one.
C20_Partitioned ==
    /\ [][HandlerStep =>
            LET own == ScratchPaths(uid')
            IN  /\ uid' # uid =>
                      \A u \in UIDs \ {uid'} : own \cap ScratchPaths(u) = {}
                /\ \A p \in DOMAIN fs' :
                      (p \notin DOMAIN fs \/ fs'[p] # fs[p]) => p \in own
                /\ DOMAIN fs \subseteq DOMAIN fs'
                /\ Len(threads') >= Len(threads)
                /\ SubSeq(threads', 1, Len(threads)) = threads
                /\ \A i \in (Len(threads) + 1)..Len(threads') :
                      \A k \in DOMAIN threads'[i].paths : threads'[i].paths[k] \in own]_vars
    /\ [][~ HandlerStep =>
            /\ \A p \in DOMAIN fs' : p \in DOMAIN fs /\ fs'[p] = fs[p]
            /\ \A p \in DOMAIN fs \ DOMAIN fs' :
                  \E i \in DOMAIN threads :
                      /\ threads[i].next <= Len(threads[i].paths)
                      /\ threads[i].paths[threads[i].next] = p]_vars

\* C20 witness: both handlers are in the middle of their pipelines, each with
\* files of its own on disk, after the scheduler has taken the processor from
\* one of them
C20_Witness ==
    /\ other.pc \notin {"none", "received", "paths", "done"}
    /\ pc \notin {"received", "paths", "done"}
    /\ uid # other.uid
    /\ other.switches >= 1
    /\ \E p, q \in DOMAIN fs : p[2] = uid /\ q[2] = other.uid



----------------------------------------------------------------------------
(* deletion tasks that meet a path that is already gone                    *)

\* thread i has walked its whole list
Finished(i) == threads[i].next > Len(threads[i].paths)

\* thread i has been given path p
Lists(i, p) == \E k \in DOMAIN threads[i].paths : threads[i].paths[k] = p

\* C21: a deletion task that meets a path which another task has been given
\* too, or which is gone already, does not raise: no task ever ends with an
\* error, every step of a task moves it to the next path of its list and
\* leaves that path absent, the step changes nothing of the handler (its
\* position, its pending return, the response), and in the end every task that
\* was started has walked its whole list.
C21_SilentDeletion ==
    /\ [](\A i \in DOMAIN threads : ~ threads[i].raised)
    /\ [][\A i \in DOMAIN threads :
            threads'[i] # threads[i] =>
                /\ threads'[i].next = threads[i].next + 1
                /\ threads[i].paths[threads[i].next] \notin DOMAIN fs'
                /\ response' = response
                /\ pc' = pc
                /\ pending' = pending]_vars
    /\ <>[](\A i \in DOMAIN threads : Finished(i))

\* C21 witness: the remux of a pairing request has failed, cleanup_all's task
\* and the task of the finally block were both given the source video, both
\* have walked their lists (the later of the two met the path gone),
\* cleanup_all's list went on past the source video, nothing they were given is
\* left, and the answer is the 500 of the remux failure
C21_Witness ==
    /\ Live
    /\ Done
    /\ response.status = 500
    /\ \E k \in DOMAIN steps : steps[k] = Step("remux", FALSE)
    /\ \E i, j \in DOMAIN threads :
          /\ i # j
          /\ Lists(i, src_video)
          /\ threads[j].paths = <<src_video>>
          /\ \E k \in DOMAIN threads[i].paths :
                /\ threads[i].paths[k] = src_video
                /\ k < Len(threads[i].paths)
    /\ \A i \in DOMAIN threads :
          /\ Finished(i)
          /\ ~ threads[i].raised
          /\ \A k \in DOMAIN threads[i].paths : threads[i].paths[k] \notin DOMAIN fs


----------------------------------------------------------------------------
(* optional shot parameters that are supplied blank                        *)

\* "-NAME=": the form of the entries that blank a tag
BlankingEntry(e) == e.kind = "tag" /\ e.value = <<>>

\* C22: an optional shot parameter that the form supplies empty or as
\* whitespace only does not get its default: the request passes validation
\* with no answer yet, and the image Tag Plan has an entry for the field, every
\* entry for the field has the empty value, the form of a blanking entry, and
\* none has the documented default.
C22_BlankNotDefaulted ==
    \A k \in OptionalNames :
        k \in DOMAIN request.form /\ Blank(request.form[k]) =>
            /\ pc # "received" => Succeeded("validate") /\ response = NoResponse
            /\ \A i \in DOMAIN calls :
                  calls[i].tool = "exiftool" /\ calls[i].target = out_photo =>
                      /\ \E j \in DOMAIN calls[i].cmd : calls[i].cmd[j] = Tag(ShotTag(k), <<>>)
                      /\ \A j \in DOMAIN calls[i].cmd :
                            calls[i].cmd[j].name = ShotTag(k) =>
                                /\ BlankingEntry(calls[i].cmd[j])
                                /\ ~ DocumentedDefault(k, calls[i].cmd[j].value)

\* C22 witness: the image Tag Plan of a form whose iso is one blank and whose
\* width is empty has been built, with "-ISO=" and "-ExifImageWidth=" and the
\* default of the height that the form lacks
C22_Witness ==
    /\ calls # <<>>
    /\ calls[1].target = out_photo
    /\ DOMAIN request.form \cap OptionalNames = {"iso", "width"}
    /\ request.form["iso"] = <<" ">>
    /\ request.form["width"] = <<>>
    /\ \E j \in DOMAIN calls[1].cmd : calls[1].cmd[j] = Tag("ISO", <<>>)
    /\ \E j \in DOMAIN calls[1].cmd : calls[1].cmd[j] = Tag("ExifImageWidth", <<>>)
    /\ Assigns(TagPlan(calls[1].cmd), "ExifImageHeight", <<"3024">>)


----------------------------------------------------------------------------
(* the Tag Plan of the video pipeline inside that of the pairing pipeline  *)

\* the place of the first pairing-identifier entry of a plan
FirstId(plan) ==
    CHOOSE k \in DOMAIN plan :
        /\ plan[k].name \in VideoIdTags
        /\ \A j \in 1..(k - 1) : plan[j].name \notin VideoIdTags

\* C23: for one make, model and date, the Tag Plan that the video pipeline
\* builds is the pairing pipeline's video Tag Plan up to, and without, its
\* first pairing-identifier entry: the same entries with the same values in
\* the same order; it has no pairing-identifier entry and no still-frame
\* anchor.
C23_VideoPlanPrefix ==
    \A i, j \in DOMAIN calls :
        /\ calls[i].tool = "exiftool" /\ calls[i].target = out
        /\ calls[j].tool = "exiftool" /\ calls[j].target = out_video
        => LET single == TagPlan(calls[i].cmd)
               paired == TagPlan(calls[j].cmd)
           IN  /\ \E k \in DOMAIN paired : paired[k].name \in VideoIdTags
               /\ single = SubSeq(paired, 1, FirstId(paired) - 1)
               /\ \A k \in DOMAIN single :
                     single[k].name \notin VideoIdTags \cup {"Keys:StillImageTime"}

\* C23 witness: both video Tag Plans have been built from a form with a
\* padded model: 21 entries and 25, the 21st the same, and the trimmed model in
\* both
C23_Witness ==
    /\ Len(calls) = 3
    /\ calls[2].target = out_video
    /\ calls[3].target = out
    /\ request.form["model"] = <<" ", "Pixel", "\t">>
    /\ Len(TagPlan(calls[3].cmd)) = 21
    /\ Len(TagPlan(calls[2].cmd)) = 25
    /\ TagPlan(calls[3].cmd)[21] = TagPlan(calls[2].cmd)[21]
    /\ TagPlan(calls[3].cmd)[9] = Tag("QuickTime:Model", <<"Pixel">>)
    /\ TagPlan(calls[2].cmd)[9] = Tag("QuickTime:Model", <<"Pixel">>)

====
